---- MODULE Spec2Model ----
(***************************************************************************)
(* Model of the job board of clan0304/adhub: the listing page              *)
(* (src/app/findwork/page.tsx), the posting card                           *)
(* (src/components/JobPostingCard.tsx), the detail page                    *)
(* (src/app/findwork/[slug]/page.tsx) and the session provider             *)
(* (src/lib/supabase.ts).  React state is modelled by variables, every     *)
(* asynchronous handler by an "issue" step that records the values the     *)
(* handler's closure captured and a "resolve" step that runs the code      *)
(* after the await with those captured values.                             *)
(***************************************************************************)
EXTENDS Integers, Sequences, FiniteSets, Bags, TLC

\* ------------------------------------------------------------------ bounds
NJobs == 2          \* postings stored at the gateway when the page opens
MaxCreate == 1      \* postings created during a run
MaxInFlight == 2    \* gateway calls a user lets pile up before waiting
MaxEvents == 4      \* user and session events during a run
PoolSize == 3       \* postings the listings handed to the filter are drawn from

\* --------------------------------------------------------------- constants
NoUser == "none"
NoError == "ok"
NoTime == -1
NoDate == -1
NoJob == 0
EndOfDay == 86399   \* 23:59:59 in seconds after midnight

\* ----------------------------------------------------------------- strings
\* A string is a sequence of one-character strings.
UpperToLower ==
  [c \in {"A", "B", "C", "G", "L", "N", "O", "P", "T"} |->
     CASE c = "A" -> "a" [] c = "B" -> "b" [] c = "C" -> "c" [] c = "G" -> "g"
       [] c = "L" -> "l" [] c = "N" -> "n" [] c = "O" -> "o" [] c = "P" -> "p"
       [] c = "T" -> "t"]

toLowerCase(s) ==
  [i \in 1..Len(s) |-> IF s[i] \in DOMAIN UpperToLower THEN UpperToLower[s[i]] ELSE s[i]]

includes(s, q) ==
  \E i \in 0..(Len(s) - Len(q)) : SubSeq(s, i + 1, i + Len(q)) = q

\* `${first_name} ${last_name}`
FullName(job) == job.first_name \o <<" ">> \o job.last_name

\* ---------------------------------------------------------------- accounts
Users == {"c1", "b1"}               \* accounts that sign in during a run
Profiles == {"c1", "b1", "b2"}      \* rows of the profiles table

ProfileRow(u) ==
  [id |-> u,
   user_id |-> u,
   user_type |-> IF u = "c1" THEN "content_creator" ELSE "business_owner",
   country |-> IF u = "b2" THEN "Australia" ELSE "Taiwan",
   city |-> IF u = "b2" THEN <<"P", "e", "r", "t", "h">> ELSE <<"T", "a", "i", "n", "a", "n">>,
   first_name |-> IF u = "b2" THEN <<"A", "n", "n">> ELSE IF u = "b1" THEN <<"B", "o">> ELSE <<"C", "y">>,
   last_name |-> IF u = "b2" THEN <<"N", "g">> ELSE <<"L", "i">>]

UserType(u) == IF u = NoUser THEN "none" ELSE ProfileRow(u).user_type

\* ------------------------------------------------------------ gateway rows
JobIds == 1..(NJobs + MaxCreate)

\* The owner of the posting stored with id j when the page opens.
OwnerOf(j) == IF j % 2 = 1 THEN "b1" ELSE "b2"

FormTitle == <<"L", "o", "g", "o">>
FormDescription == <<"a", "d">>

\* A row of job_postings as the gateway stores it.  The rows present when
\* the page opens: odd ids belong to b1 and carry no deadline, even ids
\* belong to b2 and close at the end of day 0.
StoredRow(j, owner, title, description, hasDeadline, date, time) ==
  [id |-> j, profile_id |-> owner, created_at |-> j, slug |-> j,
   title |-> title, description |-> description,
   has_deadline |-> hasDeadline, deadline_date |-> date, deadline_time |-> time]

InitialRow(j) ==
  IF j % 2 = 1
    THEN StoredRow(j, OwnerOf(j), FormTitle, FormDescription, FALSE, NoDate, NoTime)
    ELSE StoredRow(j, OwnerOf(j), <<"A", "d">>, <<"n", "e", "e", "d", " ", "l", "o", "g", "o">>,
                   TRUE, 0, NoTime)

\* order('created_at', { ascending: false }) over the initial rows
RECURSIVE InitialRows(_)
InitialRows(n) == IF n = 0 THEN <<>> ELSE <<InitialRow(n)>> \o InitialRows(n - 1)

\* ------------------------------------------------------- sequence helpers
RECURSIVE SeqFilterIdx(_, _, _)
SeqFilterIdx(s, keep, i) ==
  IF i > Len(s) THEN <<>>
  ELSE (IF i \in keep THEN <<s[i]>> ELSE <<>>) \o SeqFilterIdx(s, keep, i + 1)

Ids(s) == {s[i].id : i \in 1..Len(s)}

\* Array.prototype.filter((job) => job.id !== id)
RemoveId(s, id) == SeqFilterIdx(s, {i \in 1..Len(s) : s[i].id # id}, 1)

\* Array.prototype.map((job) => job.id === id ? { ...job, is_saved: v } : job)
SetSaved(s, id, v) ==
  [i \in 1..Len(s) |-> IF s[i].id = id THEN [s[i] EXCEPT !.is_saved = v] ELSE s[i]]


\* ------------------------------------------------------------------- time
DaySeconds == 86400
Instants == {86399, 86400}

\* The browser's offset from UTC in seconds, east positive.
TimeZones == {-18000, 0, 3600}

\* isDeadlinePassed() of the card and of the detail page, evaluated at
\* instant t (seconds since the epoch, UTC) in a browser whose zone is
\* zone.  deadline_date is the day number of a "YYYY-MM-DD" string,
\* deadline_time the minutes after midnight of an "HH:MM" string.
\*
\* new Date("YYYY-MM-DD") is midnight UTC of that day; setHours() then sets
\* the hour, minute (and second) fields of the LOCAL calendar day that
\* instant falls on, which is the day before in a zone west of UTC.
ParsedDate(job) == job.deadline_date * DaySeconds

LocalDay(instant, zone) == (instant + zone) \div DaySeconds

LocalSecond(instant, zone) == (instant + zone) % 60

setHours(instant, zone, h, m, sec) ==
  LocalDay(instant, zone) * DaySeconds + h * 3600 + m * 60 + sec - zone

DeadlineCutoff(job, zone) ==
  IF job.deadline_time # NoTime
    THEN setHours(ParsedDate(job), zone, job.deadline_time \div 60,
                  job.deadline_time % 60, LocalSecond(ParsedDate(job), zone))
    ELSE setHours(ParsedDate(job), zone, 23, 59, 59)

isDeadlinePassed(job, t, zone) ==
  IF ~job.has_deadline \/ job.deadline_date = NoDate THEN FALSE
  ELSE t > DeadlineCutoff(job, zone)

\* ------------------------------------------------------------ materializer
\* The flattening of a joined row (transformedJobs of fetchJobPostings).
TransformRow(row) ==
  LET p == ProfileRow(row.profile_id) IN
  [id |-> row.id, profile_id |-> row.profile_id, created_at |-> row.created_at,
   slug |-> row.slug,
   title |-> row.title, description |-> row.description,
   has_deadline |-> row.has_deadline, deadline_date |-> row.deadline_date,
   deadline_time |-> row.deadline_time,
   user_id |-> p.user_id, country |-> p.country, city |-> p.city,
   first_name |-> p.first_name, last_name |-> p.last_name,
   user_type |-> p.user_type, is_saved |-> FALSE]

TransformRows(rows) == [i \in 1..Len(rows) |-> TransformRow(rows[i])]

\* jobsWithSavedFlag: is_saved: savedIds.has(job.id)
MarkSaved(jobs, savedIds) ==
  [i \in 1..Len(jobs) |-> [jobs[i] EXCEPT !.is_saved = (jobs[i].id \in savedIds)]]

\* newJobPosting of handleCreateJobPosting: the inserted row plus the
\* creating profile's attributes.
NewJobPosting(row, profile) ==
  LET p == ProfileRow(profile) IN
  [TransformRow(row) EXCEPT !.user_id = p.user_id, !.country = p.country,
     !.city = p.city, !.first_name = p.first_name, !.last_name = p.last_name,
     !.user_type = p.user_type, !.is_saved = FALSE]

\* ------------------------------------------------------------ filter engine
Countries == {"", "Taiwan"}
Queries == {<<>>, <<"A", "n", "n">>}

\* Mutant of SavedStage: the saved-only stage keeps every posting.
SavedStageOff(s, on) == s

SavedStage(s, on) ==
  IF on THEN SeqFilterIdx(s, {i \in 1..Len(s) : s[i].is_saved}, 1) ELSE s

\* Mutant of CountryStage: the matching postings are collected by
\* prepending, so they come out in reverse order.
RECURSIVE CountryStageReversed(_, _)
CountryStageReversed(s, country) ==
  IF country = "" \/ s = <<>> THEN s
  ELSE CountryStageReversed(Tail(s), country)
         \o (IF Head(s).country = country THEN <<Head(s)>> ELSE <<>>)

CountryStage(s, country) ==
  IF country # "" THEN SeqFilterIdx(s, {i \in 1..Len(s) : s[i].country = country}, 1) ELSE s

\* Mutant of MatchesQuery: the city is not searched.
MatchesQueryNoCity(job, query) ==
  \/ includes(toLowerCase(job.title), query)
  \/ includes(toLowerCase(job.description), query)
  \/ includes(toLowerCase(FullName(job)), query)

MatchesQuery(job, query) ==
  \/ includes(toLowerCase(job.title), query)
  \/ includes(toLowerCase(job.description), query)
  \/ includes(toLowerCase(job.city), query)
  \/ includes(toLowerCase(FullName(job)), query)

\* Mutant of SearchStage: the scan starts at the second posting.
SearchStageFromSecond(s, searchQuery) ==
  IF searchQuery # <<>>
    THEN SeqFilterIdx(s, {i \in 1..Len(s) : MatchesQuery(s[i], toLowerCase(searchQuery))}, 2)
    ELSE s

SearchStage(s, searchQuery) ==
  IF searchQuery # <<>>
    THEN SeqFilterIdx(s, {i \in 1..Len(s) : MatchesQuery(s[i], toLowerCase(searchQuery))}, 1)
    ELSE s

\* The body of the filter effect after its early return.
applyFilters(all, savedOnly, country, searchQuery) ==
  SearchStage(CountryStage(SavedStage(all, savedOnly), country), searchQuery)

\* The filter effect: it runs after every commit that changed one of
\* selectedCountry, searchQuery, showOnlySaved, allJobPostings, and leaves
\* filteredJobPostings as the handler set it when the full set is empty.
FilterEffect(all, handlerFiltered, savedOnly, country, searchQuery) ==
  IF Len(all) = 0 THEN handlerFiltered
  ELSE applyFilters(all, savedOnly, country, searchQuery)

\* ---------------------------------------------------------------- requests
\* A gateway call in flight, with what the awaiting handler's closure holds.
\* after is history: the postings whose save toggle has succeeded while
\* this call was in flight.
Request(kind, job, isSaved, cSession, cProfile, cAll, cFiltered, cSavedIds, cShowOnlySaved, cCountry, cQuery, live) ==
  [kind |-> kind, job |-> job, isSaved |-> isSaved, cSession |-> cSession,
   cProfile |-> cProfile, cAll |-> cAll, cFiltered |-> cFiltered,
   cSavedIds |-> cSavedIds, cShowOnlySaved |-> cShowOnlySaved,
   cCountry |-> cCountry, cQuery |-> cQuery, live |-> live, after |-> {}]

LoadRequest(kind, cSession, cProfile, cAll) ==
  Request(kind, NoJob, FALSE, cSession, cProfile, cAll, <<>>, {}, FALSE, "", <<>>, TRUE)

One(r) == SetToBag({r})

RECURSIVE SumCounts(_, _)
SumCounts(B, S) ==
  IF S = {} THEN 0
  ELSE LET x == CHOOSE y \in S : TRUE IN B[x] + SumCounts(B, S \ {x})

\* A card that unmounts takes its pending continuations with it: the call
\* still reaches the gateway, the setState calls after it change nothing.
Orphan(r, gone) ==
  IF r.kind = "apply" /\ r.job \in gone THEN [r EXCEPT !.live = FALSE] ELSE r

\* The calls in flight after the cards of the postings in gone unmounted.
OrphanAll(B, gone) ==
  LET img == {Orphan(x, gone) : x \in DOMAIN B} IN
  [y \in img |-> SumCounts(B, {x \in DOMAIN B : Orphan(x, gone) = y})]

\* History: a save toggle of posting j has succeeded; the save toggles of
\* other postings still in flight remember it.
Overtaken(r, j) ==
  IF r.kind = "save" /\ r.job # j THEN [r EXCEPT !.after = r.after \cup {j}] ELSE r

OvertakenAll(B, j) ==
  LET img == {Overtaken(x, j) : x \in DOMAIN B} IN
  [y \in img |-> SumCounts(B, {x \in DOMAIN B : Overtaken(x, j) = y})]

\* ------------------------------------------------------------------- state
VARIABLES
  session,              \* useAuth().session: the signed-in user or NoUser
  events,               \* number of user and session events so far
  userProfile,          \* listing page: profile row loaded for the session
  allJobPostings,       \* listing page: the full listing set
  filteredJobPostings,  \* listing page: the visible listing set
  savedJobIds,          \* listing page: ids the viewer has saved
  loading,              \* listing page: a load is running
  error,                \* listing page: message of a failed load
  isModalOpen,          \* listing page: the posting form is shown
  editingJob,           \* the posting the form edits, or NoJob, on the page
                        \* that renders JobPostingsList
  selectedCountry,      \* filter state
  searchQuery,          \* filter state
  showOnlySaved,        \* filter state
  showMyPostingsOnly,   \* filter state of the page that renders FilterSection
  cards,                \* per mounted JobPostingCard: its component state
  inflight,             \* bag of gateway calls awaiting their response
  dbJobs,               \* gateway: job_postings, newest first
  dbSaved,              \* gateway: saved_jobs as <<profile, job>> pairs
  dbApplied,            \* gateway: job_applications as <<profile, job>> pairs
  created,              \* number of rows inserted into job_postings
  now,                  \* wall clock
  tz,                   \* the browser's time zone
  prompt,               \* answer to the confirm() prompt of the last step
  signal,               \* what the last step wrote to the console ("log")
                        \* and showed in an alert() box ("alert")
  outcome,              \* "ok" or "failed" when the last step was the end of
                        \* a save, apply, create or delete, else "none"
  route,                \* the page that is open
  slugJob,              \* detail page: the posting its slug names, or NoJob
  jobPosting,           \* detail page: the loaded posting, or NoPosting
  dUserProfile,         \* detail page: profile row loaded for the session
  isSaved,              \* detail page
  isApplied,            \* detail page
  isActionLoading,      \* detail page: busy flag shared by save and apply
  dLoading,             \* detail page: loading
  dError,               \* detail page: error message
  dShown,               \* detail page: instant of its last render
  formData,             \* posting form: the entered data
  errors,               \* posting form: the fields marked with an error
  isSubmitting,         \* posting form: a submit is running
  onCreateCalls,        \* posting form: the data handed to onCreate and
                        \* awaiting its return
  newTitle,             \* slug generator: the title it is called with
  randomValue,          \* slug generator: what Math.random() returns
  newSlug,              \* slug generator: its result
  pathname,             \* middleware: request.nextUrl.pathname
  cookieSession,        \* middleware: the session of the request's cookies
  response,             \* middleware: its response to the request, if made
  redirects,            \* middleware: redirects the browser has followed
  profileData,          \* profile wizard: the entered data (its username)
  usernameAvailable,    \* profile wizard: "null", "true" or "false"
  usernameError,        \* profile wizard: message under the username field
  validationErrors,     \* profile wizard: fields the last submit rejected
  usernameTimer,        \* profile wizard: the username the pending debounce
                        \* timer will check, or NoTimer
  usernameChecks,       \* profile wizard: usernames whose availability
                        \* check is in flight
  submittedProfile      \* profile wizard: the data handed to submitProfile

authVars == <<session>>
listVars == <<userProfile, allJobPostings, filteredJobPostings, savedJobIds,
              loading, error, isModalOpen>>
filterVars == <<selectedCountry, searchQuery, showOnlySaved, showMyPostingsOnly>>
dbVars == <<dbJobs, dbSaved, dbApplied, created>>
detailVars == <<slugJob, jobPosting, dUserProfile, isSaved, isApplied,
                isActionLoading, dLoading, dError, dShown>>
formVars == <<formData, errors, isSubmitting, onCreateCalls>>
\* State of the components that are not part of the job board's pages.
slugVars == <<newTitle, randomValue, newSlug>>
mwVars == <<pathname, cookieSession, response, redirects>>
wizardVars ==
  <<profileData, usernameAvailable, usernameError, validationErrors,
    usernameTimer, usernameChecks, submittedProfile>>
sideVars == <<formVars, slugVars, mwVars, wizardVars>>
vars == <<authVars, events, listVars, editingJob, filterVars, cards, inflight, dbVars, now, tz,
          prompt, outcome, signal, route, detailVars, sideVars>>

NoPosting == [id |-> NoJob]

\* ------------------------------------------------------------------- cards
FreshCard ==
  [userProfile |-> NoUser, isApplied |-> FALSE, isLoading |-> FALSE,
   isDeleting |-> FALSE, timer |-> FALSE, fetch |-> NoUser, fetch2 |-> NoUser,
   shown |-> NoTime]

\* The cards the listing page renders: none while loading or in the error
\* state, else one per visible posting.
Mounted(isLoading, err, filtered) ==
  IF isLoading \/ err # NoError THEN {} ELSE Ids(filtered)

\* Card state after a commit of the page.  A card that mounts starts fresh
\* and runs its checkApplied effect (which returns at once without a
\* session); the effect runs again when the session changed; every mounted
\* card is rendered again at instant t.
CardsAfter(base, before, after, newSession, sessionChanged, t) ==
  [j \in JobIds |->
     IF j \notin after THEN FreshCard
     ELSE IF j \notin before
       THEN [FreshCard EXCEPT !.fetch = newSession, !.shown = t]
       ELSE [base[j] EXCEPT
               !.fetch = IF sessionChanged /\ newSession # NoUser
                           THEN newSession ELSE base[j].fetch,
               !.shown = t]]

JobOf(list, j) == list[CHOOSE i \in 1..Len(list) : list[i].id = j]

\* isOwner={job.user_id === session?.user?.id}
isOwner(job) == session # NoUser /\ job.user_id = session

\* canInteract of the card
canInteract(j, job) ==
  UserType(cards[j].userProfile) = "content_creator" /\ ~isOwner(job)

isBusinessOwner == UserType(userProfile) = "business_owner"
isContentCreator == UserType(userProfile) = "content_creator"

InFlightCount == BagCardinality(inflight)
Pending == BagToSet(inflight)
MountedNow == Mounted(loading, error, filteredJobPostings)

\* What every step of the listing page ends with: cards are mounted,
\* unmounted and rendered again, and the continuations of unmounted cards
\* are dropped.  The caller has set the page's variables, the filter effect
\* included.
View(inflightBase, sessionChanged) ==
  LET after == Mounted(loading', error', filteredJobPostings') IN
  /\ cards' = CardsAfter(cards, MountedNow, after, session', sessionChanged, now)
  /\ inflight' = OrphanAll(inflightBase, JobIds \ after)
  /\ prompt' = "none"

\* A step of one card that leaves the page's state alone.
CardStep(j, c) ==
  /\ cards' = [cards EXCEPT ![j] = [c EXCEPT !.shown = now]]
  /\ UNCHANGED <<authVars, listVars, filterVars, dbJobs, dbSaved, created, now,
                 route, detailVars>>

\* A user or session event: the run allows MaxEvents of them.
\* The pages under src/ have no edit target, the browser keeps its zone.
UserEvent ==
  /\ events < MaxEvents /\ events' = events + 1
  /\ outcome' = "none" /\ signal' = {} /\ tz' = tz /\ editingJob' = editingJob
  /\ UNCHANGED sideVars

\* A step the gateway's response or a timer starts.  result is "ok" or
\* "failed" when the step is the end of a save, apply, create or delete,
\* else "none".
Response(result, effects) ==
  /\ events' = events /\ outcome' = result /\ signal' = effects
  /\ tz' = tz /\ editingJob' = editingJob
  /\ UNCHANGED sideVars

\* What a handler's catch block does besides setting state: console.error
\* ("log") and alert() ("alert").
Effects(ok, effects) == IF ok THEN {} ELSE effects

Settled(ok) == IF ok THEN "ok" ELSE "failed"

\* ------------------------------------------------------------ idle state
\* The posting form as useState creates it: empty, no deadline.
BlankForm ==
  [title |-> <<>>, description |-> <<>>, has_deadline |-> FALSE,
   deadline_date |-> NoDate, deadline_time |-> NoTime]

FormIdle ==
  /\ formData = BlankForm
  /\ errors = {}
  /\ isSubmitting = FALSE
  /\ onCreateCalls = <<>>

\* The components outside the job board's pages are not in use.
NoSlug == <<>>

SlugIdle ==
  /\ newTitle = <<>>
  /\ randomValue = <<0, 1>>
  /\ newSlug = NoSlug

NoPath == <<>>
NoResponse == [kind |-> "none"]

MwIdle ==
  /\ pathname = NoPath
  /\ cookieSession = "none"
  /\ response = NoResponse
  /\ redirects = 0

NoTimer == <<>>
NoProfile == [username |-> <<"?">>]

\* The wizard as useState creates it.
WizardIdle ==
  /\ profileData = [username |-> <<>>]
  /\ usernameAvailable = "null"
  /\ usernameError = "null"
  /\ validationErrors = {}
  /\ usernameTimer = NoTimer
  /\ usernameChecks = {}
  /\ submittedProfile = NoProfile

SideInit == FormIdle /\ SlugIdle /\ MwIdle /\ WizardIdle

\* ------------------------------------------------------------ listing page
\* The listing page after its first render: no session yet (AuthProvider
\* starts with session null), the mount effects have started the first load.
ListFields ==
  /\ userProfile = NoUser
  /\ allJobPostings = <<>>
  /\ filteredJobPostings = <<>>
  /\ savedJobIds = {}
  /\ error = NoError
  /\ isModalOpen = FALSE
  /\ selectedCountry = ""
  /\ searchQuery = <<>>
  /\ showOnlySaved = FALSE
  /\ showMyPostingsOnly = FALSE
  /\ cards = [j \in JobIds |-> FreshCard]

DetailFields ==
  /\ jobPosting = NoPosting
  /\ dUserProfile = NoUser
  /\ isSaved = FALSE
  /\ isApplied = FALSE
  /\ isActionLoading = FALSE
  /\ dError = NoError
  /\ dShown = NoTime

ListInit ==
  /\ route = "list"
  /\ ListFields
  /\ loading = TRUE
  /\ inflight = One(LoadRequest("load1", NoUser, NoUser, <<>>))
  /\ DetailFields
  /\ slugJob = NoJob
  /\ dLoading = FALSE

GatewayInit ==
  /\ session = NoUser
  /\ events = 0
  /\ \E n \in 0..NJobs : dbJobs = InitialRows(n)
  /\ dbSaved = {<<"c1", 1>>}
  /\ dbApplied = {}
  /\ created = 0
  /\ now = 86399
  /\ tz = 0
  /\ prompt = "none"
  /\ outcome = "none"
  /\ signal = {}
  /\ editingJob = NoJob
  /\ SideInit

\* onAuthStateChange of the AuthProvider: setSession(newSession or null).
\* On the listing page both [session] effects run again: fetchUserProfile
\* (which returns at once without a user) and fetchJobPostings.
ListAuthStateChange(u) ==
  /\ UserEvent
  /\ route = "list"
  /\ InFlightCount + (IF u = NoUser THEN 1 ELSE 2) <= MaxInFlight
  /\ session' = u
  /\ loading' = TRUE
  /\ UNCHANGED <<userProfile, allJobPostings, filteredJobPostings, savedJobIds,
                 error, isModalOpen, filterVars, dbVars, now, route, detailVars>>
  /\ View((inflight (+) One(LoadRequest("load1", u, userProfile, <<>>)))
            (+) (IF u = NoUser THEN EmptyBag
                 ELSE One(LoadRequest("profile", u, NoUser, <<>>))),
          TRUE)

\* fetchUserProfile after its await.  setUserProfile(data) runs the
\* [session, userProfile] effect again, which starts another load.
ResolveProfile(r, ok) ==
  /\ Response("none", Effects(ok, {"log"}))
  /\ route = "list"
  /\ r.kind = "profile"
  /\ userProfile' = IF ok THEN r.cSession ELSE userProfile
  /\ loading' = IF ok THEN TRUE ELSE loading
  /\ UNCHANGED <<authVars, allJobPostings, filteredJobPostings, savedJobIds,
                 error, isModalOpen, filterVars, dbVars, now, route, detailVars>>
  /\ View((inflight (-) One(r))
            (+) (IF ok THEN One(LoadRequest("load1", session, r.cSession, <<>>))
                 ELSE EmptyBag),
          FALSE)

\* fetchJobPostings after the job_postings query.
ResolveLoad1(r, ok) ==
  /\ Response("none", Effects(ok, {"log"}))
  /\ route = "list"
  /\ r.kind = "load1"
  /\ LET transformedJobs == TransformRows(dbJobs)
         more == r.cSession # NoUser /\ UserType(r.cProfile) = "content_creator"
     IN /\ allJobPostings' = IF ok THEN transformedJobs ELSE allJobPostings
        /\ filteredJobPostings' =
             IF ok THEN FilterEffect(transformedJobs, transformedJobs, showOnlySaved,
                                     selectedCountry, searchQuery)
             ELSE filteredJobPostings
        /\ loading' = IF ok /\ more THEN loading ELSE FALSE
        /\ error' = IF ok THEN error ELSE "Failed to load job postings"
        /\ UNCHANGED <<authVars, userProfile, savedJobIds, isModalOpen, filterVars,
                       dbVars, now, route, detailVars>>
        /\ View((inflight (-) One(r))
                  (+) (IF ok /\ more
                         THEN One(LoadRequest("load2", r.cSession, r.cProfile,
                                              transformedJobs))
                         ELSE EmptyBag),
                FALSE)

\* fetchJobPostings after the saved_jobs query, without the catch block's
\* setError.
ResolveLoad2Partial(r, ok) ==
  /\ Response("none", Effects(ok, {"log"}))
  /\ route = "list"
  /\ r.kind = "load2"
  /\ LET savedIds == {j \in JobIds : <<r.cProfile, j>> \in dbSaved}
         jobsWithSavedFlag == MarkSaved(r.cAll, savedIds)
     IN /\ savedJobIds' = IF ok THEN savedIds ELSE savedJobIds
        /\ allJobPostings' = IF ok THEN jobsWithSavedFlag ELSE allJobPostings
        /\ filteredJobPostings' =
             IF ok THEN FilterEffect(jobsWithSavedFlag, jobsWithSavedFlag,
                                     showOnlySaved, selectedCountry, searchQuery)
             ELSE filteredJobPostings
  /\ loading' = FALSE
  /\ UNCHANGED <<authVars, userProfile, error, isModalOpen, filterVars, dbVars, now,
                 route, detailVars>>
  /\ View(inflight (-) One(r), FALSE)

\* fetchJobPostings after the saved_jobs query.
ResolveLoad2(r, ok) ==
  /\ Response("none", Effects(ok, {"log"}))
  /\ route = "list"
  /\ r.kind = "load2"
  /\ LET savedIds == {j \in JobIds : <<r.cProfile, j>> \in dbSaved}
         jobsWithSavedFlag == MarkSaved(r.cAll, savedIds)
     IN /\ savedJobIds' = IF ok THEN savedIds ELSE savedJobIds
        /\ allJobPostings' = IF ok THEN jobsWithSavedFlag ELSE allJobPostings
        /\ filteredJobPostings' =
             IF ok THEN FilterEffect(jobsWithSavedFlag, jobsWithSavedFlag,
                                     showOnlySaved, selectedCountry, searchQuery)
             ELSE filteredJobPostings
        /\ error' = IF ok THEN error ELSE "Failed to load job postings"
  /\ loading' = FALSE
  /\ UNCHANGED <<authVars, userProfile, isModalOpen, filterVars, dbVars, now,
                 route, detailVars>>
  /\ View(inflight (-) One(r), FALSE)

\* The render branch `error ? ...`: the message and the "Try again" button,
\* in place of the spinner, the empty notice and the cards.
ErrorView == ~loading /\ error # NoError

\* Click on "Try again": window.location.reload().  The page starts over
\* (AuthProvider too, with session null) and the calls in flight are
\* abandoned with the old page.
Reload ==
  /\ UserEvent
  /\ route = "list"
  /\ ErrorView
  /\ session' = NoUser
  /\ userProfile' = NoUser
  /\ allJobPostings' = <<>>
  /\ filteredJobPostings' = <<>>
  /\ savedJobIds' = {}
  /\ error' = NoError
  /\ isModalOpen' = FALSE
  /\ selectedCountry' = ""
  /\ searchQuery' = <<>>
  /\ showOnlySaved' = FALSE
  /\ showMyPostingsOnly' = FALSE
  /\ loading' = TRUE
  /\ cards' = [j \in JobIds |-> FreshCard]
  /\ inflight' = One(LoadRequest("load1", NoUser, NoUser, <<>>))
  /\ prompt' = "none"
  /\ UNCHANGED <<dbVars, now, route, detailVars>>

\* ---------------------------------------------------------- filter controls
\* onChange of the search box.
SetSearchQuery(q) ==
  /\ UserEvent
  /\ route = "list"
  /\ q # searchQuery
  /\ searchQuery' = q
  /\ filteredJobPostings' =
       FilterEffect(allJobPostings, filteredJobPostings, showOnlySaved,
                    selectedCountry, q)
  /\ UNCHANGED <<authVars, userProfile, allJobPostings, savedJobIds, loading, error,
                 isModalOpen, selectedCountry, showOnlySaved, showMyPostingsOnly,
                 dbVars, now, route, detailVars>>
  /\ View(inflight, FALSE)

\* onChange of the country select.
SetSelectedCountry(c) ==
  /\ UserEvent
  /\ route = "list"
  /\ c # selectedCountry
  /\ selectedCountry' = c
  /\ filteredJobPostings' =
       FilterEffect(allJobPostings, filteredJobPostings, showOnlySaved, c,
                    searchQuery)
  /\ UNCHANGED <<authVars, userProfile, allJobPostings, savedJobIds, loading, error,
                 isModalOpen, searchQuery, showOnlySaved, showMyPostingsOnly,
                 dbVars, now, route, detailVars>>
  /\ View(inflight, FALSE)

\* The "Show Saved Jobs" button, rendered for content creators.
toggleSavedFilter ==
  /\ UserEvent
  /\ route = "list"
  /\ isContentCreator
  /\ showOnlySaved' = ~showOnlySaved
  /\ filteredJobPostings' =
       FilterEffect(allJobPostings, filteredJobPostings, ~showOnlySaved,
                    selectedCountry, searchQuery)
  /\ UNCHANGED <<authVars, userProfile, allJobPostings, savedJobIds, loading, error,
                 isModalOpen, selectedCountry, searchQuery, showMyPostingsOnly,
                 dbVars, now, route, detailVars>>
  /\ View(inflight, FALSE)

\* The "Clear Filters" button, rendered while a filter is active.
clearFilters ==
  /\ UserEvent
  /\ route = "list"
  /\ selectedCountry # "" \/ searchQuery # <<>> \/ showOnlySaved
  /\ selectedCountry' = ""
  /\ searchQuery' = <<>>
  /\ showOnlySaved' = FALSE
  /\ filteredJobPostings' =
       FilterEffect(allJobPostings, allJobPostings, FALSE, "", <<>>)
  /\ UNCHANGED <<authVars, userProfile, allJobPostings, savedJobIds, loading, error,
                 isModalOpen, showMyPostingsOnly, dbVars, now, route, detailVars>>
  /\ View(inflight, FALSE)

\* ------------------------------------------------------------ card effects
\* checkApplied of the card after the profiles query.  A failed query is
\* only logged and leaves the card as it is while the query is pending, so
\* the step models the query that succeeds.
CardProfileLoaded(j) ==
  /\ Response("none", {})
  /\ route = "list"
  /\ j \in MountedNow
  /\ cards[j].fetch # NoUser
  /\ LET u == cards[j].fetch IN
     CardStep(j, [cards[j] EXCEPT
                    !.userProfile = u, !.fetch = NoUser,
                    !.fetch2 = IF UserType(u) = "content_creator"
                                 THEN u ELSE cards[j].fetch2])
  /\ UNCHANGED <<inflight, dbApplied>>
  /\ prompt' = "none"

\* checkApplied of the card after the job_applications query: data is the
\* row or null, also when the query reports an error.
CardAppliedLoaded(j, ok) ==
  /\ Response("none", {})
  /\ route = "list"
  /\ j \in MountedNow
  /\ cards[j].fetch2 # NoUser
  /\ CardStep(j, [cards[j] EXCEPT
                    !.isApplied = ok /\ <<cards[j].fetch2, j>> \in dbApplied,
                    !.fetch2 = NoUser])
  /\ UNCHANGED <<inflight, dbApplied>>
  /\ prompt' = "none"

\* The fallback timeout of the card's handleSaveJob.
CardTimeout(j) ==
  /\ Response("none", {})
  /\ route = "list"
  /\ j \in MountedNow
  /\ cards[j].timer
  /\ CardStep(j, [cards[j] EXCEPT !.isLoading = FALSE, !.timer = FALSE])
  /\ UNCHANGED <<inflight, dbApplied>>
  /\ prompt' = "none"

\* ------------------------------------------------------------- save toggle
SaveRequest(j, job) ==
  Request("save", j, job.is_saved, session, userProfile, allJobPostings,
          filteredJobPostings, savedJobIds, showOnlySaved, selectedCountry,
          searchQuery, TRUE)

\* Mutant of CardSaveClick: the button stays busy while a save toggle of
\* the posting is in flight.
CardSaveClickGuarded(j) ==
  /\ UserEvent
  /\ route = "list"
  /\ j \in MountedNow
  /\ \A r \in Pending : ~(r.kind = "save" /\ r.job = j)
  /\ LET job == JobOf(filteredJobPostings, j) IN
     /\ canInteract(j, job)
     /\ ~cards[j].isLoading
     /\ CardStep(j, [cards[j] EXCEPT !.isLoading = TRUE, !.timer = TRUE])
     /\ IF userProfile = NoUser
          THEN UNCHANGED inflight
          ELSE /\ InFlightCount < MaxInFlight
               /\ inflight' = inflight (+) One(SaveRequest(j, job))
  /\ UNCHANGED dbApplied
  /\ prompt' = "none"

\* Click on the card's bookmark button: the card's handleSaveJob, which
\* calls the page's handleSaveJob(job.id, isSaved) up to its await.
CardSaveClick(j) ==
  /\ UserEvent
  /\ route = "list"
  /\ j \in MountedNow
  /\ LET job == JobOf(filteredJobPostings, j) IN
     /\ canInteract(j, job)
     /\ ~cards[j].isLoading
     /\ CardStep(j, [cards[j] EXCEPT !.isLoading = TRUE, !.timer = TRUE])
     /\ IF userProfile = NoUser
          THEN UNCHANGED inflight
          ELSE /\ InFlightCount < MaxInFlight
               /\ inflight' = inflight (+) One(SaveRequest(j, job))
  /\ UNCHANGED dbApplied
  /\ prompt' = "none"

\* Mutant of ResolveSave: the page's state is updated before the outcome of
\* the call is looked at.
ResolveSaveOptimistic(r, ok) ==
  /\ Response(Settled(ok), Effects(ok, {"log", "alert"}))
  /\ route = "list"
  /\ r.kind = "save"
  /\ dbSaved' = IF ~ok THEN dbSaved
                ELSE IF r.isSaved THEN dbSaved \ {<<r.cProfile, r.job>>}
                ELSE dbSaved \cup {<<r.cProfile, r.job>>}
  /\ savedJobIds' = IF r.isSaved THEN r.cSavedIds \ {r.job}
                    ELSE r.cSavedIds \cup {r.job}
  /\ allJobPostings' = SetSaved(r.cAll, r.job, ~r.isSaved)
  /\ LET handlerFiltered ==
           IF r.isSaved /\ r.cShowOnlySaved
             THEN RemoveId(filteredJobPostings, r.job)
             ELSE SetSaved(filteredJobPostings, r.job, ~r.isSaved)
     IN filteredJobPostings' =
          FilterEffect(allJobPostings', handlerFiltered, showOnlySaved,
                       selectedCountry, searchQuery)
  /\ UNCHANGED <<authVars, userProfile, loading, error, isModalOpen, filterVars,
                 dbJobs, dbApplied, created, now, route, detailVars>>
  /\ View(inflight (-) One(r), FALSE)

\* The page's handleSaveJob after its await.
ResolveSave(r, ok) ==
  /\ Response(Settled(ok), Effects(ok, {"log", "alert"}))
  /\ route = "list"
  /\ r.kind = "save"
  /\ IF ok
       THEN /\ dbSaved' = IF r.isSaved THEN dbSaved \ {<<r.cProfile, r.job>>}
                          ELSE dbSaved \cup {<<r.cProfile, r.job>>}
            /\ savedJobIds' = IF r.isSaved THEN r.cSavedIds \ {r.job}
                              ELSE r.cSavedIds \cup {r.job}
            /\ allJobPostings' = SetSaved(r.cAll, r.job, ~r.isSaved)
            /\ LET handlerFiltered ==
                     IF r.isSaved /\ r.cShowOnlySaved
                       THEN RemoveId(filteredJobPostings, r.job)
                       ELSE SetSaved(filteredJobPostings, r.job, ~r.isSaved)
               IN filteredJobPostings' =
                    FilterEffect(allJobPostings', handlerFiltered, showOnlySaved,
                                 selectedCountry, searchQuery)
       ELSE UNCHANGED <<dbSaved, savedJobIds, allJobPostings, filteredJobPostings>>
  /\ UNCHANGED <<authVars, userProfile, loading, error, isModalOpen, filterVars,
                 dbJobs, dbApplied, created, now, route, detailVars>>
  /\ View(IF ok THEN OvertakenAll(inflight (-) One(r), r.job)
           ELSE inflight (-) One(r), FALSE)

\* ------------------------------------------------------------------- apply
ApplyRequest(j, profile) ==
  Request("apply", j, FALSE, session, profile, <<>>, <<>>, {}, FALSE, "", <<>>, TRUE)

\* Click on the card's "Apply Now" button: handleApplyJob up to its await.
\* The button is the one the card's last render produced; the handler
\* returns at once without a session or a card profile.
CardApplyClick(j) ==
  /\ UserEvent
  /\ route = "list"
  /\ j \in MountedNow
  /\ LET job == JobOf(filteredJobPostings, j) IN
     /\ canInteract(j, job)
     /\ ~isDeadlinePassed(job, cards[j].shown, tz)
     /\ ~cards[j].isApplied
     /\ ~cards[j].isLoading
     /\ session # NoUser /\ cards[j].userProfile # NoUser
     /\ InFlightCount < MaxInFlight
     /\ CardStep(j, [cards[j] EXCEPT !.isLoading = TRUE])
     /\ inflight' = inflight (+) One(ApplyRequest(j, cards[j].userProfile))
  /\ UNCHANGED dbApplied
  /\ prompt' = "none"

\* handleApplyJob after its await; the card may be gone by then.
ResolveApply(r, ok) ==
  /\ Response(Settled(ok), Effects(ok, {"log"}))
  /\ route = "list"
  /\ r.kind = "apply"
  /\ dbApplied' = IF ok THEN dbApplied \cup {<<r.cProfile, r.job>>} ELSE dbApplied
  /\ IF r.live
       THEN CardStep(r.job, [cards[r.job] EXCEPT
                               !.isApplied = IF ok THEN TRUE ELSE cards[r.job].isApplied,
                               !.isLoading = FALSE])
       ELSE UNCHANGED <<cards, authVars, listVars, filterVars, dbJobs, dbSaved,
                        created, now, route, detailVars>>
  /\ inflight' = inflight (-) One(r)
  /\ prompt' = "none"

\* ------------------------------------------------------------------ delete
DeleteRequest(j) ==
  Request("delete", j, FALSE, session, userProfile, allJobPostings,
          filteredJobPostings, {}, FALSE, "", <<>>, TRUE)

\* Mutant of CardDeleteClick: the answer to the prompt is not looked at.
CardDeleteClickUnasked(j, confirmed) ==
  /\ UserEvent
  /\ route = "list"
  /\ j \in MountedNow
  /\ LET job == JobOf(filteredJobPostings, j) IN
     /\ ~canInteract(j, job) /\ isOwner(job)
     /\ ~cards[j].isDeleting
     /\ prompt' = IF confirmed THEN "yes" ELSE "no"
     /\ InFlightCount < MaxInFlight
     /\ CardStep(j, [cards[j] EXCEPT !.isDeleting = TRUE])
     /\ inflight' = inflight (+) One(DeleteRequest(j))
  /\ UNCHANGED dbApplied

\* Click on "Delete Job Posting" in the owner's menu of a card:
\* handleDeleteJob, which asks for confirmation and, when it is given, calls
\* the page's handleDeleteJobPosting up to its await.
CardDeleteClick(j, confirmed) ==
  /\ UserEvent
  /\ route = "list"
  /\ j \in MountedNow
  /\ LET job == JobOf(filteredJobPostings, j) IN
     /\ ~canInteract(j, job) /\ isOwner(job)
     /\ ~cards[j].isDeleting
     /\ prompt' = IF confirmed THEN "yes" ELSE "no"
     /\ IF confirmed
          THEN /\ InFlightCount < MaxInFlight
               /\ CardStep(j, [cards[j] EXCEPT !.isDeleting = TRUE])
               /\ inflight' = inflight (+) One(DeleteRequest(j))
          ELSE UNCHANGED <<cards, inflight, authVars, listVars, filterVars, dbJobs,
                           dbSaved, created, now, route, detailVars>>
  /\ UNCHANGED dbApplied

\* Rows of the join tables go with their posting (cascade at the gateway).
WithoutJob(pairs, j) == {p \in pairs : p[2] # j}

\* setFilteredJobPostings(filteredJobPostings.filter((job) => job.id !== id))
DeleteFilteredKept(filtered, id) == filtered

DeleteFiltered(filtered, id) == RemoveId(filtered, id)

\* handleDeleteJobPosting after its await.
ResolveDelete(r, ok) ==
  /\ Response(Settled(ok), Effects(ok, {"log", "alert"}))
  /\ route = "list"
  /\ r.kind = "delete"
  /\ IF ok
       THEN /\ dbJobs' = RemoveId(dbJobs, r.job)
            /\ dbSaved' = WithoutJob(dbSaved, r.job)
            /\ dbApplied' = WithoutJob(dbApplied, r.job)
            /\ allJobPostings' = RemoveId(r.cAll, r.job)
            /\ filteredJobPostings' =
                 FilterEffect(allJobPostings', DeleteFiltered(r.cFiltered, r.job),
                              showOnlySaved, selectedCountry, searchQuery)
       ELSE UNCHANGED <<dbJobs, dbSaved, dbApplied, allJobPostings,
                        filteredJobPostings>>
  /\ UNCHANGED <<authVars, userProfile, savedJobIds, loading, error, isModalOpen,
                 filterVars, created, now, route, detailVars>>
  /\ View(inflight (-) One(r), FALSE)

\* ------------------------------------------------------------------ create
\* The "Create Job Posting" button, rendered for business owners.
OpenModal ==
  /\ UserEvent
  /\ route = "list"
  /\ isBusinessOwner
  /\ ~isModalOpen
  /\ isModalOpen' = TRUE
  /\ UNCHANGED <<authVars, userProfile, allJobPostings, filteredJobPostings,
                 savedJobIds, loading, error, filterVars, dbVars, now, route,
                 detailVars>>
  /\ View(inflight, FALSE)

\* onClose of the posting form (its Cancel button).
CloseModal ==
  /\ UserEvent
  /\ route = "list"
  /\ isModalOpen
  /\ isModalOpen' = FALSE
  /\ UNCHANGED <<authVars, userProfile, allJobPostings, filteredJobPostings,
                 savedJobIds, loading, error, filterVars, dbVars, now, route,
                 detailVars>>
  /\ View(inflight, FALSE)

CreatesInFlight == SumCounts(inflight, {r \in Pending : r.kind = "create"})

CreateRequest ==
  Request("create", NoJob, FALSE, session, userProfile, allJobPostings,
          filteredJobPostings, {}, showOnlySaved, selectedCountry, searchQuery, TRUE)

\* Submit of a valid posting form: the form's handleSubmit calls
\* handleCreateJobPosting, which returns at once without session or profile
\* (the form then closes) and otherwise runs up to its await.
SubmitCreate ==
  /\ UserEvent
  /\ route = "list"
  /\ isModalOpen
  /\ LET early == session = NoUser \/ userProfile = NoUser IN
     /\ ~early => InFlightCount < MaxInFlight /\ created + CreatesInFlight < MaxCreate
     /\ isModalOpen' = IF early THEN FALSE ELSE isModalOpen
     /\ UNCHANGED <<authVars, userProfile, allJobPostings, filteredJobPostings,
                    savedJobIds, loading, error, filterVars, dbVars, now, route,
                    detailVars>>
     /\ View(IF early THEN inflight ELSE inflight (+) One(CreateRequest), FALSE)

\* The filter that handleCreateJobPosting applies itself before the filter
\* effect runs: title and description only.
CreateFiltered(list, savedOnly, country, query) ==
  LET a == CountryStage(SavedStage(list, savedOnly), country) IN
  IF query # <<>>
    THEN SeqFilterIdx(a, {i \in 1..Len(a) :
           \/ includes(toLowerCase(a[i].title), toLowerCase(query))
           \/ includes(toLowerCase(a[i].description), toLowerCase(query))}, 1)
    ELSE a

\* [newJobPosting, ...allJobPostings]
updatedJobPostingsAtTail(newJobPosting, all) == all \o <<newJobPosting>>

updatedJobPostings(newJobPosting, all) == <<newJobPosting>> \o all

\* handleCreateJobPosting after its await, followed by the form's onClose().
ResolveCreate(r, ok) ==
  /\ Response(Settled(ok), Effects(ok, {"log", "alert"}))
  /\ route = "list"
  /\ r.kind = "create"
  /\ IF ok
       THEN LET row == StoredRow(NJobs + created + 1, r.cProfile, FormTitle,
                                 FormDescription, FALSE, NoDate, NoTime)
                updated == updatedJobPostings(NewJobPosting(row, r.cProfile), r.cAll)
            IN /\ dbJobs' = <<row>> \o dbJobs
               /\ created' = created + 1
               /\ allJobPostings' = updated
               /\ filteredJobPostings' =
                    FilterEffect(updated,
                                 CreateFiltered(updated, r.cShowOnlySaved,
                                                r.cCountry, r.cQuery),
                                 showOnlySaved, selectedCountry, searchQuery)
       ELSE UNCHANGED <<dbJobs, created, allJobPostings, filteredJobPostings>>
  /\ isModalOpen' = FALSE
  /\ UNCHANGED <<authVars, userProfile, savedJobIds, loading, error, filterVars,
                 dbSaved, dbApplied, now, route, detailVars>>
  /\ View(inflight (-) One(r), FALSE)

\* -------------------------------------------------------------------- time
Tick ==
  /\ UserEvent
  /\ \E t \in Instants : t > now /\ now' = t
  /\ prompt' = "none"
  /\ UNCHANGED <<authVars, listVars, filterVars, cards, inflight, dbVars, route,
                 detailVars>>

ListNext ==
  \/ \E u \in Users \cup {NoUser} : ListAuthStateChange(u)
  \/ \E r \in Pending, ok \in BOOLEAN : ResolveProfile(r, ok)
  \/ \E r \in Pending, ok \in BOOLEAN : ResolveLoad1(r, ok)
  \/ \E r \in Pending, ok \in BOOLEAN : ResolveLoad2(r, ok)
  \/ Reload
  \/ \E q \in Queries : SetSearchQuery(q)
  \/ \E c \in Countries : SetSelectedCountry(c)
  \/ toggleSavedFilter
  \/ clearFilters
  \/ \E j \in JobIds : CardProfileLoaded(j)
  \/ \E j \in JobIds, ok \in BOOLEAN : CardAppliedLoaded(j, ok)
  \/ \E j \in JobIds : CardTimeout(j)
  \/ \E j \in JobIds : CardSaveClick(j)
  \/ \E r \in Pending, ok \in BOOLEAN : ResolveSave(r, ok)
  \/ \E j \in JobIds : CardApplyClick(j)
  \/ \E r \in Pending, ok \in BOOLEAN : ResolveApply(r, ok)
  \/ \E j \in JobIds, confirmed \in BOOLEAN : CardDeleteClick(j, confirmed)
  \/ \E r \in Pending, ok \in BOOLEAN : ResolveDelete(r, ok)
  \/ OpenModal
  \/ CloseModal
  \/ SubmitCreate
  \/ \E r \in Pending, ok \in BOOLEAN : ResolveCreate(r, ok)

\* ------------------------------------------------------------- detail page
\* The detail page after its first render, opened with the slug of a stored
\* posting or with a slug no posting has: fetchData has started.
DetailInit ==
  /\ route = "detail"
  /\ ListFields
  /\ loading = FALSE
  /\ DetailFields
  /\ slugJob \in (1..NJobs) \cup {NoJob}
  /\ dLoading = TRUE
  /\ inflight = One(LoadRequest("dfetch1", NoUser, NoUser, <<>>))

DetailRequest(kind, job, saved, profile) ==
  Request(kind, job, saved, session, profile, <<>>, <<>>, {}, FALSE, "", <<>>, TRUE)

\* Every step of the detail page renders it again.
DetailStep ==
  /\ dShown' = now
  /\ UNCHANGED <<listVars, filterVars, cards, now, slugJob>>

\* The page shows the posting: not the spinner and not the error view.
DetailShown == ~dLoading /\ dError = NoError /\ jobPosting # NoPosting

dIsOwner == session # NoUser /\ jobPosting.user_id = session
dIsContentCreator == UserType(dUserProfile) = "content_creator"

\* .single() of the gateway client: the row when exactly one row matches,
\* an error otherwise.
SingleJob(slug) == {i \in 1..Len(dbJobs) : dbJobs[i].id = slug}

\* onAuthStateChange on the detail page: the [slug, session] effect runs
\* fetchData again.
DetailAuthStateChange(u) ==
  /\ UserEvent
  /\ route = "detail"
  /\ InFlightCount < MaxInFlight
  /\ session' = u
  /\ dLoading' = TRUE
  /\ inflight' = inflight (+) One(LoadRequest("dfetch1", u, NoUser, <<>>))
  /\ prompt' = "none"
  /\ DetailStep
  /\ UNCHANGED <<jobPosting, dUserProfile, isSaved, isApplied, isActionLoading,
                 dError, dbVars, route>>

\* The message of the error fetchData catches: the gateway's own when the
\* call went through and .single() matched no row, else the fallback of
\* setError(err.message || 'Failed to load job posting').
NoRowsMessage == "JSON object requested, multiple (or no) rows returned"

FetchError(reached) ==
  IF reached THEN NoRowsMessage ELSE "Failed to load job posting"

\* fetchData after the job_postings query.  The branch that sets 'Job
\* posting not found' needs a null row without an error, which .single()
\* does not return.
ResolveDFetch1(r, ok) ==
  /\ route = "detail"
  /\ r.kind = "dfetch1"
  /\ LET found == ok /\ SingleJob(slugJob) # {}
         more == found /\ r.cSession # NoUser
     IN /\ Response("none", Effects(found, {"log"}))
        /\ jobPosting' = IF found
                           THEN TransformRow(dbJobs[CHOOSE i \in SingleJob(slugJob) : TRUE])
                           ELSE jobPosting
        /\ dError' = IF found THEN dError ELSE FetchError(ok)
        /\ dLoading' = IF more THEN dLoading ELSE FALSE
        /\ inflight' = (inflight (-) One(r))
             (+) (IF more THEN One([r EXCEPT !.kind = "dfetch2", !.job = slugJob,
                                               !.cProfile = r.cSession])
                  ELSE EmptyBag)
  /\ prompt' = "none"
  /\ DetailStep
  /\ UNCHANGED <<authVars, dUserProfile, isSaved, isApplied, isActionLoading,
                 dbVars, route>>

\* fetchData after the profiles query.
ResolveDFetch2(r, ok) ==
  /\ Response("none", Effects(ok, {"log"}))
  /\ route = "detail"
  /\ r.kind = "dfetch2"
  /\ dUserProfile' = IF ok THEN r.cProfile ELSE dUserProfile
  /\ dLoading' = IF ok THEN dLoading ELSE FALSE
  /\ inflight' = (inflight (-) One(r))
       (+) (IF ok THEN One([r EXCEPT !.kind = "dfetch3"]) ELSE EmptyBag)
  /\ prompt' = "none"
  /\ DetailStep
  /\ UNCHANGED <<authVars, jobPosting, isSaved, isApplied, isActionLoading,
                 dError, dbVars, route>>

\* fetchData after the saved_jobs query: data is the row or null.
ResolveDFetch3(r, ok) ==
  /\ Response("none", {})
  /\ route = "detail"
  /\ r.kind = "dfetch3"
  /\ isSaved' = (ok /\ <<r.cProfile, r.job>> \in dbSaved)
  /\ inflight' = (inflight (-) One(r)) (+) One([r EXCEPT !.kind = "dfetch4"])
  /\ prompt' = "none"
  /\ DetailStep
  /\ UNCHANGED <<authVars, jobPosting, dUserProfile, isApplied, isActionLoading,
                 dLoading, dError, dbVars, route>>

\* fetchData after the job_applications query, up to its finally block.
ResolveDFetch4(r, ok) ==
  /\ Response("none", {})
  /\ route = "detail"
  /\ r.kind = "dfetch4"
  /\ isApplied' = (ok /\ <<r.cProfile, r.job>> \in dbApplied)
  /\ dLoading' = FALSE
  /\ inflight' = inflight (-) One(r)
  /\ prompt' = "none"
  /\ DetailStep
  /\ UNCHANGED <<authVars, jobPosting, dUserProfile, isSaved, isActionLoading,
                 dError, dbVars, route>>

\* Mutant of DetailSaveClick: the button is not disabled while busy.
DetailSaveClickAnyTime ==
  /\ UserEvent
  /\ route = "detail"
  /\ DetailShown
  /\ dIsContentCreator /\ ~dIsOwner
  /\ session # NoUser /\ dUserProfile # NoUser
  /\ InFlightCount < MaxInFlight
  /\ isActionLoading' = TRUE
  /\ inflight' = inflight (+) One(DetailRequest("dsave", jobPosting.id, isSaved,
                                                  dUserProfile))
  /\ prompt' = "none"
  /\ DetailStep
  /\ UNCHANGED <<authVars, jobPosting, dUserProfile, isSaved, isApplied, dLoading,
                 dError, dbVars, route>>

\* Click on the bookmark button of the detail page: handleSaveJob up to its
\* await (it returns at once without session, profile or posting).
DetailSaveClick ==
  /\ UserEvent
  /\ route = "detail"
  /\ DetailShown
  /\ dIsContentCreator /\ ~dIsOwner
  /\ ~isActionLoading
  /\ session # NoUser /\ dUserProfile # NoUser
  /\ InFlightCount < MaxInFlight
  /\ isActionLoading' = TRUE
  /\ inflight' = inflight (+) One(DetailRequest("dsave", jobPosting.id, isSaved,
                                                  dUserProfile))
  /\ prompt' = "none"
  /\ DetailStep
  /\ UNCHANGED <<authVars, jobPosting, dUserProfile, isSaved, isApplied, dLoading,
                 dError, dbVars, route>>

\* handleSaveJob of the detail page after its await.
ResolveDSave(r, ok) ==
  /\ Response(Settled(ok), Effects(ok, {"log"}))
  /\ route = "detail"
  /\ r.kind = "dsave"
  /\ dbSaved' = IF ~ok THEN dbSaved
                ELSE IF r.isSaved THEN dbSaved \ {<<r.cProfile, r.job>>}
                ELSE dbSaved \cup {<<r.cProfile, r.job>>}
  /\ isSaved' = IF ok THEN ~r.isSaved ELSE isSaved
  /\ isActionLoading' = FALSE
  /\ inflight' = inflight (-) One(r)
  /\ prompt' = "none"
  /\ DetailStep
  /\ UNCHANGED <<authVars, jobPosting, dUserProfile, isApplied, dLoading, dError,
                 dbJobs, dbApplied, created, route>>

\* Click on "Apply for this Job": handleApplyForJob up to its await.  The
\* button is the one the last render produced.
DetailApplyClick ==
  /\ UserEvent
  /\ route = "detail"
  /\ DetailShown
  /\ ~dIsOwner /\ dIsContentCreator /\ ~isApplied
  /\ ~isActionLoading /\ ~isDeadlinePassed(jobPosting, dShown, tz)
  /\ session # NoUser /\ dUserProfile # NoUser
  /\ InFlightCount < MaxInFlight
  /\ isActionLoading' = TRUE
  /\ inflight' = inflight (+) One(DetailRequest("dapply", jobPosting.id, FALSE,
                                                  dUserProfile))
  /\ prompt' = "none"
  /\ DetailStep
  /\ UNCHANGED <<authVars, jobPosting, dUserProfile, isSaved, isApplied, dLoading,
                 dError, dbVars, route>>

\* handleApplyForJob after its await.
ResolveDApply(r, ok) ==
  /\ Response(Settled(ok), Effects(ok, {"log"}))
  /\ route = "detail"
  /\ r.kind = "dapply"
  /\ dbApplied' = IF ok THEN dbApplied \cup {<<r.cProfile, r.job>>} ELSE dbApplied
  /\ isApplied' = IF ok THEN TRUE ELSE isApplied
  /\ isActionLoading' = FALSE
  /\ inflight' = inflight (-) One(r)
  /\ prompt' = "none"
  /\ DetailStep
  /\ UNCHANGED <<authVars, jobPosting, dUserProfile, isSaved, dLoading, dError,
                 dbJobs, dbSaved, created, route>>

\* Click on "Delete Job Posting" of the detail page: handleDelete, which
\* asks for confirmation and then runs up to its await.
DetailDeleteClick(confirmed) ==
  /\ UserEvent
  /\ route = "detail"
  /\ DetailShown
  /\ dIsOwner
  /\ prompt' = IF confirmed THEN "yes" ELSE "no"
  /\ IF confirmed
       THEN /\ InFlightCount < MaxInFlight
            /\ dLoading' = TRUE
            /\ inflight' = inflight (+) One(DetailRequest("ddelete", jobPosting.id,
                                                            FALSE, dUserProfile))
            /\ dShown' = now
       ELSE UNCHANGED <<dLoading, inflight, dShown>>
  /\ UNCHANGED <<authVars, listVars, filterVars, cards, now, slugJob, jobPosting,
                 dUserProfile, isSaved, isApplied, isActionLoading, dError, dbVars,
                 route>>

\* handleDelete after its await: on success router.push('/findwork') leaves
\* the page.
ResolveDDelete(r, ok) ==
  /\ Response(Settled(ok), Effects(ok, {"log"}))
  /\ route = "detail"
  /\ r.kind = "ddelete"
  /\ dbJobs' = IF ok THEN RemoveId(dbJobs, r.job) ELSE dbJobs
  /\ dbSaved' = IF ok THEN WithoutJob(dbSaved, r.job) ELSE dbSaved
  /\ dbApplied' = IF ok THEN WithoutJob(dbApplied, r.job) ELSE dbApplied
  /\ route' = IF ok THEN "left" ELSE route
  /\ dError' = IF ok THEN dError ELSE "Failed to delete job posting"
  /\ dLoading' = IF ok THEN dLoading ELSE FALSE
  /\ inflight' = inflight (-) One(r)
  /\ prompt' = "none"
  /\ DetailStep
  /\ UNCHANGED <<authVars, jobPosting, dUserProfile, isSaved, isApplied,
                 isActionLoading, created>>

DetailNext ==
  \/ \E u \in Users \cup {NoUser} : DetailAuthStateChange(u)
  \/ \E r \in Pending, ok \in BOOLEAN : ResolveDFetch1(r, ok)
  \/ \E r \in Pending, ok \in BOOLEAN : ResolveDFetch2(r, ok)
  \/ \E r \in Pending, ok \in BOOLEAN : ResolveDFetch3(r, ok)
  \/ \E r \in Pending, ok \in BOOLEAN : ResolveDFetch4(r, ok)
  \/ DetailSaveClick
  \/ \E r \in Pending, ok \in BOOLEAN : ResolveDSave(r, ok)
  \/ DetailApplyClick
  \/ \E r \in Pending, ok \in BOOLEAN : ResolveDApply(r, ok)
  \/ \E confirmed \in BOOLEAN : DetailDeleteClick(confirmed)
  \/ \E r \in Pending, ok \in BOOLEAN : ResolveDDelete(r, ok)

\* ----------------------------------------------- mine-only filter toggle
\* The page that renders FilterSection holds showMyPostingsOnly and hands
\* toggleMyPostingsFilter to the button FilterSection renders for business
\* owners.  Enabling mine-only clears saved-only; the filter effect of the
\* listing page runs after it.
toggleMyPostingsFilter ==
  /\ UserEvent
  /\ route = "list"
  /\ isBusinessOwner
  /\ showMyPostingsOnly' = ~showMyPostingsOnly
  /\ showOnlySaved' = IF ~showMyPostingsOnly THEN FALSE ELSE showOnlySaved
  /\ filteredJobPostings' =
       FilterEffect(allJobPostings, filteredJobPostings, showOnlySaved',
                    selectedCountry, searchQuery)
  /\ UNCHANGED <<authVars, userProfile, allJobPostings, savedJobIds, loading, error,
                 isModalOpen, selectedCountry, searchQuery, dbVars, now, route,
                 detailVars>>
  /\ View(inflight, FALSE)

\* ------------------------------------------------------- the filter alone
\* Listings the filter is run on: up to PoolSize postings with distinct ids,
\* in any order, each saved or not.
FilterPool ==
  {[TransformRow(InitialRow(j)) EXCEPT !.is_saved = v] : j \in 1..PoolSize, v \in BOOLEAN}

Listings ==
  {l \in UNION {[1..n -> FilterPool] : n \in 0..PoolSize} :
     \A i, k \in 1..Len(l) : i # k => l[i].id # l[k].id}

FilterCountries == {"", "Taiwan", "Australia"}
FilterQueries ==
  {<<>>, <<"A", "n", "n">>, <<"t", "a", "i">>, <<"L", "O", "G", "O">>,
   <<"B", "o", " ", "L", "i">>, <<"x">>}

\* A listing page that has loaded the listing l for an anonymous viewer and
\* whose filter controls have been set; the filter effect has not run yet.
FilterInit ==
  /\ route = "filter"
  /\ allJobPostings \in Listings
  /\ filteredJobPostings = allJobPostings
  /\ showOnlySaved \in BOOLEAN
  /\ selectedCountry \in FilterCountries
  /\ searchQuery \in FilterQueries
  /\ userProfile = NoUser
  /\ savedJobIds = {}
  /\ loading = FALSE
  /\ error = NoError
  /\ isModalOpen = FALSE
  /\ showMyPostingsOnly = FALSE
  /\ cards = [j \in JobIds |-> FreshCard]
  /\ inflight = EmptyBag
  /\ DetailFields
  /\ slugJob = NoJob
  /\ dLoading = FALSE
  /\ GatewayInit

filterRest ==
  <<authVars, events, userProfile, savedJobIds, loading, error, isModalOpen,
    showMyPostingsOnly, cards, inflight, dbVars, now, tz, prompt, outcome,
    signal, editingJob, detailVars, sideVars>>

\* The filter effect runs on the listing.
RunFilterEffect ==
  /\ route = "filter"
  /\ filteredJobPostings' =
       FilterEffect(allJobPostings, filteredJobPostings, showOnlySaved,
                    selectedCountry, searchQuery)
  /\ route' = "filtered"
  /\ UNCHANGED <<allJobPostings, selectedCountry, searchQuery, showOnlySaved, filterRest>>

\* The filter effect runs on its own result: the filtered set becomes the
\* full set and the effect runs with the same filter state.
RunFilterAgain ==
  /\ route = "filtered"
  /\ allJobPostings' = filteredJobPostings
  /\ filteredJobPostings' =
       FilterEffect(allJobPostings', filteredJobPostings, showOnlySaved,
                    selectedCountry, searchQuery)
  /\ route' = "refiltered"
  /\ UNCHANGED <<selectedCountry, searchQuery, showOnlySaved, filterRest>>

\* clearFilters, and the filter effect that runs after it.
RunClearFilters ==
  /\ route = "filtered"
  /\ selectedCountry' = ""
  /\ searchQuery' = <<>>
  /\ showOnlySaved' = FALSE
  /\ filteredJobPostings' = FilterEffect(allJobPostings, allJobPostings, FALSE, "", <<>>)
  /\ route' = "cleared"
  /\ UNCHANGED <<allJobPostings, filterRest>>

FilterNext == RunFilterEffect \/ RunFilterAgain \/ RunClearFilters

\* --------------------------------------------------------- deadline check
\* The deadline check on drawn postings, clocks and time zones: a detail
\* page shows a posting and is rendered again as time passes.
DeadlineDates == {NoDate, 1}
DeadlineTimes == {NoTime, 0, 750}

Shifts == {0} \cup {z \in TimeZones : z > 0} \cup {0 - z : z \in {y \in TimeZones : y < 0}}

DeadlineInstants ==
  {d * DaySeconds + sec + z :
     d \in {0, 1}, sec \in {0, 45000, EndOfDay, DaySeconds}, z \in Shifts}

DeadlinePostings ==
  {[TransformRow(InitialRow(2)) EXCEPT
      !.has_deadline = f, !.deadline_date = d, !.deadline_time = m] :
     f \in BOOLEAN, d \in DeadlineDates, m \in DeadlineTimes}

DeadlineInit ==
  /\ route = "deadline"
  /\ jobPosting \in DeadlinePostings
  /\ tz \in TimeZones
  /\ now \in DeadlineInstants /\ \A t \in DeadlineInstants : now <= t
  /\ dShown = now
  /\ slugJob = 2
  /\ dUserProfile = NoUser
  /\ isSaved = FALSE
  /\ isApplied = FALSE
  /\ isActionLoading = FALSE
  /\ dError = NoError
  /\ dLoading = FALSE
  /\ ListFields
  /\ loading = FALSE
  /\ inflight = EmptyBag
  /\ session = NoUser
  /\ events = 0
  /\ dbJobs = InitialRows(NJobs)
  /\ dbSaved = {}
  /\ dbApplied = {}
  /\ created = 0
  /\ prompt = "none"
  /\ outcome = "none"
  /\ signal = {}
  /\ editingJob = NoJob
  /\ SideInit

deadlineRest ==
  <<authVars, events, listVars, filterVars, cards, inflight, dbVars, tz, prompt,
    outcome, signal, editingJob, route, slugJob, jobPosting, dUserProfile, isSaved, isApplied,
    isActionLoading, dLoading, dError, sideVars>>

\* Time passes.
DeadlineTick ==
  /\ route = "deadline"
  /\ \E t \in DeadlineInstants : t > now /\ now' = t
  /\ UNCHANGED <<dShown, deadlineRest>>

\* The page is rendered again: isDeadlinePassed() reads the clock.
DeadlineRender ==
  /\ route = "deadline"
  /\ dShown # now
  /\ dShown' = now
  /\ UNCHANGED <<now, deadlineRest>>

DeadlineNext == DeadlineTick \/ DeadlineRender

\* ----------------------------------------------------------------- editing
\* The owner edits postings on the page that renders JobPostingsList: the
\* card's edit button reaches handleEditJobPosting, the posting form opens
\* with the posting as initialData and its submit hands the form data to
\* the page.  The page's side (the edit target, the update call and what
\* follows it) is createOrUpdate's update branch.
EditTitles == {FormTitle, <<"A", "d">>}
EditDescriptions == {FormDescription, <<"n", "e", "w">>}

\* JobPostingFormData values that pass validateForm: a date whenever the
\* deadline is enabled, neither date nor time when it is off.
EditForms ==
  {[title |-> t, description |-> d, has_deadline |-> f, deadline_date |-> dt,
    deadline_time |-> tm] :
     t \in EditTitles, d \in EditDescriptions, f \in BOOLEAN,
     dt \in {NoDate, 1}, tm \in {NoTime, 750}}

validateForm(form) ==
  /\ form.title # <<>> /\ form.description # <<>>
  /\ form.has_deadline => form.deadline_date # NoDate
  /\ ~form.has_deadline => form.deadline_date = NoDate /\ form.deadline_time = NoTime

EditInit ==
  /\ route = "edit"
  /\ session = "b1"
  /\ userProfile = "b1"
  /\ \E n \in 1..NJobs : dbJobs = InitialRows(n)
  /\ allJobPostings = TransformRows(dbJobs)
  /\ filteredJobPostings = allJobPostings
  /\ savedJobIds = {}
  /\ loading = FALSE
  /\ error = NoError
  /\ isModalOpen = FALSE
  /\ editingJob = NoJob
  /\ selectedCountry = ""
  /\ searchQuery = <<>>
  /\ showOnlySaved = FALSE
  /\ showMyPostingsOnly = FALSE
  /\ cards = [j \in JobIds |-> FreshCard]
  /\ inflight = EmptyBag
  /\ events = 0
  /\ dbSaved = {}
  /\ dbApplied = {}
  /\ created = 0
  /\ now = 86399
  /\ tz = 0
  /\ prompt = "none"
  /\ outcome = "none"
  /\ signal = {}
  /\ DetailFields
  /\ slugJob = NoJob
  /\ dLoading = FALSE
  /\ SideInit

editRest ==
  <<authVars, userProfile, savedJobIds, loading, error, filterVars, cards,
    dbSaved, dbApplied, created, now, tz, prompt, route, detailVars, sideVars>>

EditEvent ==
  /\ events < MaxEvents /\ events' = events + 1
  /\ outcome' = "none" /\ signal' = {}

\* Click on the edit button of an owned card.
handleEditJobPosting(j) ==
  /\ EditEvent
  /\ route = "edit"
  /\ ~isModalOpen
  /\ j \in Ids(filteredJobPostings)
  /\ isOwner(JobOf(filteredJobPostings, j))
  /\ editingJob' = j
  /\ isModalOpen' = TRUE
  /\ UNCHANGED <<allJobPostings, filteredJobPostings, inflight, dbJobs, editRest>>

\* onClose of the posting form.
CancelEdit ==
  /\ EditEvent
  /\ route = "edit"
  /\ isModalOpen
  /\ editingJob' = NoJob
  /\ isModalOpen' = FALSE
  /\ UNCHANGED <<allJobPostings, filteredJobPostings, inflight, dbJobs, editRest>>

UpdateRequest(j, form) ==
  [form |-> form] @@
  Request("update", j, FALSE, session, userProfile, allJobPostings,
          filteredJobPostings, {}, showOnlySaved, selectedCountry, searchQuery, TRUE)

\* handleSubmit of the posting form with valid data: the page's handler
\* runs up to the await of its update call.
SubmitEdit(form) ==
  /\ EditEvent
  /\ route = "edit"
  /\ isModalOpen /\ editingJob # NoJob
  /\ validateForm(form)
  /\ InFlightCount < MaxInFlight
  /\ inflight' = inflight (+) One(UpdateRequest(editingJob, form))
  /\ UNCHANGED <<allJobPostings, filteredJobPostings, isModalOpen, editingJob,
                 dbJobs, editRest>>

\* Mutant of UpdatePatch: the slug is generated again from the title.
UpdatePatchNewSlug(row, form) ==
  [row EXCEPT !.title = form.title, !.description = form.description,
              !.has_deadline = form.has_deadline,
              !.deadline_date = form.deadline_date,
              !.deadline_time = form.deadline_time,
              !.slug = row.slug + NJobs + MaxCreate]

\* The patch of the update call: the form's five fields.
UpdatePatch(row, form) ==
  [row EXCEPT !.title = form.title, !.description = form.description,
              !.has_deadline = form.has_deadline,
              !.deadline_date = form.deadline_date,
              !.deadline_time = form.deadline_time]

Patched(list, j, form) ==
  [i \in 1..Len(list) |-> IF list[i].id = j THEN UpdatePatch(list[i], form) ELSE list[i]]

\* The page's handler after the await of the update call, followed by the
\* form's onClose().
ResolveUpdate(r, ok) ==
  /\ events' = events /\ outcome' = Settled(ok)
  /\ signal' = Effects(ok, {"log", "alert"})
  /\ route = "edit"
  /\ r.kind = "update"
  /\ IF ok
       THEN /\ dbJobs' = Patched(dbJobs, r.job, r.form)
            /\ allJobPostings' = Patched(r.cAll, r.job, r.form)
            /\ filteredJobPostings' =
                 FilterEffect(allJobPostings', Patched(r.cFiltered, r.job, r.form),
                              showOnlySaved, selectedCountry, searchQuery)
       ELSE UNCHANGED <<dbJobs, allJobPostings, filteredJobPostings>>
  /\ isModalOpen' = FALSE
  /\ editingJob' = NoJob
  /\ inflight' = inflight (-) One(r)
  /\ UNCHANGED editRest

EditNext ==
  \/ \E j \in JobIds : handleEditJobPosting(j)
  \/ CancelEdit
  \/ \E form \in EditForms : SubmitEdit(form)
  \/ \E r \in Pending, ok \in BOOLEAN : ResolveUpdate(r, ok)

\* ------------------------------------------------------------ posting form
\* The JobPostingModal component on its own: its fields, its validation and
\* its submit, with the page's handler behind its onCreate property.
boardVars ==
  <<authVars, events, listVars, editingJob, filterVars, cards, inflight, dbVars,
    now, tz, prompt, outcome, detailVars>>
formRest == <<boardVars, slugVars, mwVars, wizardVars>>
slugRest == <<boardVars, signal, formVars, mwVars, wizardVars>>
mwRest == <<boardVars, signal, route, formVars, slugVars, wizardVars>>
wizardRest == <<boardVars, formVars, slugVars, mwVars>>

\* No page of the job board is in use.
BoardIdle ==
  /\ ListFields
  /\ loading = FALSE
  /\ inflight = EmptyBag
  /\ DetailFields
  /\ slugJob = NoJob
  /\ dLoading = FALSE
  /\ session = NoUser
  /\ events = 0
  /\ dbJobs = InitialRows(NJobs)
  /\ dbSaved = {}
  /\ dbApplied = {}
  /\ created = 0
  /\ now = 86399
  /\ tz = 0
  /\ prompt = "none"
  /\ outcome = "none"
  /\ signal = {}
  /\ editingJob = NoJob

Whitespace == {" "}

\* String.prototype.trim on a string given as its characters.
RECURSIVE trimStart(_)
trimStart(str) ==
  IF str # <<>> /\ Head(str) \in Whitespace THEN trimStart(Tail(str)) ELSE str

RECURSIVE trimEnd(_)
trimEnd(str) ==
  IF str # <<>> /\ str[Len(str)] \in Whitespace
    THEN trimEnd(SubSeq(str, 1, Len(str) - 1))
    ELSE str

trim(str) == trimEnd(trimStart(str))

\* The value of a date or time input the user has emptied: the empty string.
ClearedInput == -2

\* What the user can type into the form's fields.
FormTitles == {<<>>, <<" ">>, FormTitle}
FormDescriptions == {<<>>, <<" ">>, FormDescription}
FormDates == {ClearedInput, 1}
FormTimes == {ClearedInput, 750}
FieldValues(name) ==
  CASE name = "title" -> FormTitles
    [] name = "description" -> FormDescriptions
    [] name = "deadline_date" -> FormDates
    [] name = "deadline_time" -> FormTimes

\* The form data the initialData effect installs for a posting.
FormOf(posting) ==
  [title |-> posting.title, description |-> posting.description,
   has_deadline |-> posting.has_deadline,
   deadline_date |-> posting.deadline_date,
   deadline_time |-> posting.deadline_time]

\* The form after its first render and its initialData effect: blank, or
\* filled from the posting to edit.
FormInit ==
  /\ route = "form"
  /\ formData \in {BlankForm} \cup {FormOf(p) : p \in DeadlinePostings}
  /\ errors = {}
  /\ isSubmitting = FALSE
  /\ onCreateCalls = <<>>
  /\ SlugIdle
  /\ MwIdle
  /\ WizardIdle
  /\ BoardIdle

\* The fields that are rendered: date and time only with the deadline on.
FieldShown(name) ==
  name \in {"deadline_date", "deadline_time"} => formData.has_deadline

handleChange(name, value) ==
  /\ route = "form"
  /\ FieldShown(name)
  /\ value # formData[name]
  /\ formData' = [formData EXCEPT ![name] = value]
  /\ errors' = errors \ {name}
  /\ signal' = {}
  /\ UNCHANGED <<isSubmitting, onCreateCalls, route, formRest>>

handleToggleDeadline(checked) ==
  /\ route = "form"
  /\ checked # formData.has_deadline
  /\ formData' =
       IF checked
         THEN [formData EXCEPT !.has_deadline = checked]
         ELSE [formData EXCEPT !.has_deadline = checked,
                               !.deadline_date = NoDate,
                               !.deadline_time = NoTime]
  /\ signal' = {}
  /\ UNCHANGED <<errors, isSubmitting, onCreateCalls, route, formRest>>

\* Mutant of newErrors: the deadline date is not looked at.
newErrorsNoDate(form) ==
  {name \in {"title", "description"} :
     \/ name = "title" /\ trim(form.title) = <<>>
     \/ name = "description" /\ trim(form.description) = <<>>}

\* The keys validateForm gives a message: a value that is null or the empty
\* string is falsy.
newErrors(form) ==
  {name \in {"title", "description", "deadline_date"} :
     \/ name = "title" /\ trim(form.title) = <<>>
     \/ name = "description" /\ trim(form.description) = <<>>
     \/ name = "deadline_date" /\ form.has_deadline
                               /\ form.deadline_date \in {NoDate, ClearedInput}}

\* Click on the submit button (disabled while submitting): validateForm, and
\* with no error the call of onCreate up to its await.
handleSubmit ==
  /\ route = "form"
  /\ ~isSubmitting
  /\ errors' = newErrors(formData)
  /\ IF newErrors(formData) = {}
       THEN /\ isSubmitting' = TRUE
            /\ onCreateCalls' = <<formData>>
       ELSE UNCHANGED <<isSubmitting, onCreateCalls>>
  /\ signal' = {}
  /\ UNCHANGED <<formData, route, formRest>>

\* onCreate returns, and the form calls onClose(), or it throws.
ResolveOnCreate(ok) ==
  /\ route = "form"
  /\ onCreateCalls # <<>>
  /\ onCreateCalls' = <<>>
  /\ IF ok
       THEN route' = "form closed" /\ UNCHANGED isSubmitting
       ELSE isSubmitting' = FALSE /\ UNCHANGED route
  /\ signal' = Effects(ok, {"log"})
  /\ UNCHANGED <<formData, errors, formRest>>

\* The X and Cancel buttons: onClose().
CancelForm ==
  /\ route = "form"
  /\ route' = "form closed"
  /\ signal' = {}
  /\ UNCHANGED <<formVars, formRest>>

FormNext ==
  \/ \E name \in {"title", "description", "deadline_date", "deadline_time"} :
       \E value \in FieldValues(name) : handleChange(name, value)
  \/ \E checked \in BOOLEAN : handleToggleDeadline(checked)
  \/ handleSubmit
  \/ \E ok \in BOOLEAN : ResolveOnCreate(ok)
  \/ CancelForm

\* ---------------------------------------------------------- slug generator
\* generateSlug of the listing page on drawn titles and random numbers.
MaxTitleLen == 3
TitleChars == {"A", "b", " ", "!", "-"}
SpecTitle == <<"N", "e", "e", "d", " ", "a", " ", "L", "o", "g", "o", "!", "!">>
SlugTitles ==
  {SpecTitle} \cup
  UNION {[1..n -> TitleChars] : n \in 0..MaxTitleLen}

\* Math.random() returns a double in [0, 1): a multiple of a negative power
\* of two, written here <<numerator, denominator>>.
RandomValues ==
  {<<0, 1>>, <<1, 2>>, <<3, 8>>, <<1, 1024>>, <<2049, 4096>>, <<8191, 16384>>}

Digits36 ==
  <<"0", "1", "2", "3", "4", "5", "6", "7", "8", "9", "a", "b", "c", "d", "e",
    "f", "g", "h", "i", "j", "k", "l", "m", "n", "o", "p", "q", "r", "s", "t",
    "u", "v", "w", "x", "y", "z">>

\* The base-36 digits of the fraction num / den.
RECURSIVE fractionDigits(_, _)
fractionDigits(num, den) ==
  IF num = 0
    THEN <<>>
    ELSE <<Digits36[((num * 36) \div den) + 1]>> \o
         fractionDigits((num * 36) % den, den)

\* Number.prototype.toString(36) of a value in [0, 1).
toString36(value) ==
  IF value[1] = 0
    THEN <<"0">>
    ELSE <<"0", ".">> \o fractionDigits(value[1], value[2])

\* String.prototype.substring(from, to), indices from 0.
substring(str, from, to) ==
  SubSeq(str, from + 1, IF to < Len(str) THEN to ELSE Len(str))

\* The characters \w matches.
WordChars ==
  {Digits36[i] : i \in 1..36} \cup DOMAIN UpperToLower \cup {"_"}

\* replace(/\s+/g, '-')
RECURSIVE replaceWhitespaceRuns(_)
replaceWhitespaceRuns(str) ==
  IF str = <<>>
    THEN <<>>
    ELSE IF Head(str) \in Whitespace
      THEN <<"-">> \o replaceWhitespaceRuns(trimStart(str))
      ELSE <<Head(str)>> \o replaceWhitespaceRuns(Tail(str))

\* replace(/[^\w-]+/g, '')
RECURSIVE removeSpecial(_)
removeSpecial(str) ==
  IF str = <<>>
    THEN <<>>
    ELSE IF Head(str) \in WordChars \cup {"-"}
      THEN <<Head(str)>> \o removeSpecial(Tail(str))
      ELSE removeSpecial(Tail(str))

baseSlug(str) ==
  removeSpecial(replaceWhitespaceRuns(toLowerCase(str)))

randomStr(value) == substring(toString36(value), 2, 8)

generateSlug(str, value) == baseSlug(str) \o <<"-">> \o randomStr(value)

SlugInit ==
  /\ route = "slug"
  /\ newTitle \in SlugTitles
  /\ randomValue \in RandomValues
  /\ newSlug = NoSlug
  /\ FormIdle
  /\ MwIdle
  /\ WizardIdle
  /\ BoardIdle

\* handleCreateJobPosting calls generateSlug(jobData.title).
GenerateSlug ==
  /\ route = "slug"
  /\ newSlug' = generateSlug(newTitle, randomValue)
  /\ route' = "slug made"
  /\ UNCHANGED <<newTitle, randomValue, slugRest>>

SlugNext == GenerateSlug

\* -------------------------------------------------------------- middleware
\* The middleware on drawn start paths and session states; the browser
\* follows the redirects it answers with.  A path is its characters.
MaxRedirects == 3

StartPaths ==
  {<<"/">>,
   <<"/", "d", "a", "s", "h", "b", "o", "a", "r", "d">>,
   <<"/", "d", "a", "s", "h", "b", "o", "a", "r", "d", "/", "j", "o", "b", "s">>,
   <<"/", "p", "r", "o", "f", "i", "l", "e">>,
   <<"/", "p", "r", "o", "f", "i", "l", "e", "-", "s", "e", "t", "u", "p">>,
   <<"/", "p", "r", "o", "f", "i", "l", "e", "/", "a", "n", "n">>,
   <<"/", "s", "e", "t", "t", "i", "n", "g", "s">>,
   <<"/", "s", "e", "t", "t", "i", "n", "g", "s", "2">>,
   <<"/", "a", "u", "t", "h">>,
   <<"/", "a", "u", "t", "h", "/", "c", "a", "l", "l", "b", "a", "c", "k">>,
   <<"/", "a", "u", "t", "h", "o", "r", "s">>,
   <<"/", "l", "o", "g", "i", "n">>,
   <<"/", "s", "i", "g", "n", "u", "p">>,
   <<"/", "f", "i", "n", "d", "w", "o", "r", "k">>,
   <<"/", "c", "r", "e", "a", "t", "o", "r", "s">>,
   <<"/", "a", "p", "i", "/", "j", "o", "b", "s">>,
   <<"/", "_", "n", "e", "x", "t", "/", "s", "t", "a", "t", "i", "c", "/", "a", ".", "j", "s">>,
   <<"/", "f", "a", "v", "i", "c", "o", "n", ".", "i", "c", "o">>,
   <<"/", "d", "a", "s", "h">>,
   <<"/", "l", "o", "g", "i", "n", "/", "r", "e", "s", "e", "t">>,
   <<"/", "p", "r", "o", "f", "i", "l", "e", "s">>,
   <<"/", "_", "n", "e", "x", "t", "/", "i", "m", "a", "g", "e">>}

AuthPath == <<"/", "a", "u", "t", "h">>
ProfileSetupPath == <<"/", "p", "r", "o", "f", "i", "l", "e", "-", "s", "e", "t", "u", "p">>
DashboardPath == <<"/", "d", "a", "s", "h", "b", "o", "a", "r", "d">>

\* The session the request's cookies carry: none, or one whose user has
\* profile_completed unset or set.
CookieSessions == {"none", "incomplete", "complete"}

startsWith(str, prefix) ==
  Len(str) >= Len(prefix) /\ SubSeq(str, 1, Len(prefix)) = prefix

protectedRoutes == {DashboardPath, <<"/", "p", "r", "o", "f", "i", "l", "e">>, <<"/", "s", "e", "t", "t", "i", "n", "g", "s">>}
authRoutes == {<<"/", "l", "o", "g", "i", "n">>, <<"/", "s", "i", "g", "n", "u", "p">>, AuthPath}

\* Mutant of isProtectedRoute: the path is one of the routes itself.
isProtectedRouteExact(str) == str \in protectedRoutes

isProtectedRoute(str) == \E r \in protectedRoutes : startsWith(str, r)

isAuthRoute(str) == \E r \in authRoutes : startsWith(str, r)

\* config.matcher: every path but those under api, _next/static,
\* _next/image and favicon.ico.
matcher(str) ==
  ~\E x \in {<<"/", "a", "p", "i">>, <<"/", "_", "n", "e", "x", "t", "/", "s", "t", "a", "t", "i", "c">>, <<"/", "_", "n", "e", "x", "t", "/", "i", "m", "a", "g", "e">>, <<"/", "f", "a", "v", "i", "c", "o", "n", ".", "i", "c", "o">>} :
     startsWith(str, x)

Redirect(location, redirectTo) ==
  [kind |-> "redirect", location |-> location, redirectTo |-> redirectTo]

PassThrough == [kind |-> "next"]

\* Mutant of ProfileSetupNeeded: the setup page itself is not exempt.
ProfileSetupNeededEverywhere(str, sess) ==
  /\ sess = "incomplete"
  /\ ~startsWith(str, AuthPath \o <<"/">>)
  /\ ~isAuthRoute(str)

\* The condition of the middleware's second branch.
ProfileSetupNeeded(str, sess) ==
  /\ sess = "incomplete"
  /\ str # ProfileSetupPath
  /\ ~startsWith(str, AuthPath \o <<"/">>)
  /\ ~isAuthRoute(str)

middleware(str, sess) ==
  IF sess = "none" /\ isProtectedRoute(str)
    THEN Redirect(AuthPath, str)
    ELSE IF ProfileSetupNeeded(str, sess)
      THEN Redirect(ProfileSetupPath, NoPath)
      ELSE IF sess # "none" /\ isAuthRoute(str)
        THEN Redirect(DashboardPath, NoPath)
        ELSE PassThrough

MiddlewareInit ==
  /\ route = "request"
  /\ pathname \in StartPaths
  /\ cookieSession \in CookieSessions
  /\ response = NoResponse
  /\ redirects = 0
  /\ FormIdle
  /\ SlugIdle
  /\ WizardIdle
  /\ BoardIdle

\* The server answers the request: through the middleware when the matcher
\* selects the path, else without it.
HandleRequest ==
  /\ response = NoResponse
  /\ pathname # NoPath
  /\ response' = IF matcher(pathname)
                   THEN middleware(pathname, cookieSession)
                   ELSE PassThrough
  /\ UNCHANGED <<pathname, cookieSession, redirects, mwRest>>

\* The browser follows a redirect with the same cookies.
FollowRedirect ==
  /\ response.kind = "redirect"
  /\ redirects < MaxRedirects
  /\ pathname' = response.location
  /\ response' = NoResponse
  /\ redirects' = redirects + 1
  /\ UNCHANGED <<cookieSession, mwRest>>

MiddlewareNext == HandleRequest \/ FollowRedirect

\* ---------------------------------------------------------- profile wizard
\* Step two of ProfileSetupForm as far as the username goes: the field, its
\* debounced availability check and the submit.  The other required fields
\* are filled in and valid.
TakenUsernames == {<<"b", "o", "b">>}

\* What the user can have in the username field.
WizardUsernames ==
  {<<>>, <<"a", "b">>, <<"a", "n", "n">>, <<"b", "o", "b">>, <<"a", "-", "b">>}

WizardInit ==
  /\ route = "wizard"
  /\ WizardIdle
  /\ FormIdle
  /\ SlugIdle
  /\ MwIdle
  /\ BoardIdle

\* The [profileData.username, checkUsernameAvailability] effect: its cleanup
\* clears the timer of the previous run, then it arms a new one, or without
\* a username resets flag and message.
UsernameEffect(value) ==
  IF value # <<>>
    THEN /\ usernameTimer' = value
         /\ UNCHANGED <<usernameAvailable, usernameError>>
    ELSE /\ usernameTimer' = NoTimer
         /\ usernameAvailable' = "null"
         /\ usernameError' = "null"

\* onChange of the username input.
updateUsername(value) ==
  /\ route = "wizard"
  /\ value # profileData.username
  /\ profileData' = [profileData EXCEPT !.username = value]
  /\ UsernameEffect(value)
  /\ signal' = {}
  /\ UNCHANGED <<validationErrors, usernameChecks, submittedProfile, route, wizardRest>>

\* onChange of another field: the provider renders again, which gives
\* checkUsernameAvailability a new identity, and the effect runs again.
updateOtherField ==
  /\ route = "wizard"
  /\ profileData.username # <<>>
  /\ usernameTimer = NoTimer
  /\ UsernameEffect(profileData.username)
  /\ signal' = {}
  /\ UNCHANGED <<profileData, validationErrors, usernameChecks, submittedProfile,
                 route, wizardRest>>

\* /^[a-zA-Z0-9_]+$/
ValidUsername(str) == str # <<>> /\ \A i \in 1..Len(str) : str[i] \in WordChars

\* The timer fires: checkUsername up to its await.
checkUsername ==
  /\ route = "wizard"
  /\ usernameTimer # NoTimer
  /\ usernameTimer' = NoTimer
  /\ IF Len(usernameTimer) < 3
       THEN /\ usernameAvailable' = "null"
            /\ usernameError' = "Username must be at least 3 characters"
            /\ UNCHANGED usernameChecks
       ELSE IF ~ValidUsername(usernameTimer)
         THEN /\ usernameAvailable' = "false"
              /\ usernameError' =
                   "Username can only contain letters, numbers, and underscores"
              /\ UNCHANGED usernameChecks
         ELSE /\ usernameChecks' = usernameChecks \cup {usernameTimer}
              /\ UNCHANGED <<usernameAvailable, usernameError>>
  /\ signal' = {}
  /\ UNCHANGED <<profileData, validationErrors, submittedProfile, route, wizardRest>>

\* checkUsernameAvailability of the provider: true when the query for the
\* username is answered with "no rows", false for a row and for any other
\* failure.
checkUsernameAvailability(str, ok) == ok /\ str \notin TakenUsernames

\* checkUsername after its await.
ResolveUsernameCheck(str, ok) ==
  /\ route = "wizard"
  /\ str \in usernameChecks
  /\ usernameChecks' = usernameChecks \ {str}
  /\ LET available == checkUsernameAvailability(str, ok) IN
     /\ usernameAvailable' = IF available THEN "true" ELSE "false"
     /\ usernameError' = IF available THEN "null" ELSE "Username is already taken"
  /\ signal' = {}
  /\ UNCHANGED <<profileData, validationErrors, usernameTimer, submittedProfile,
                 route, wizardRest>>

\* The keys validateStepTwo gives a message.
validateStepTwo(data, available) ==
  {name \in {"username"} : data.username = <<>> \/ available # "true"}

\* Submit of step two: validateStepTwo, and with no error submitProfile,
\* which inserts the profile row and leaves for the home page.
handleSubmitProfile ==
  /\ route = "wizard"
  /\ validationErrors' = validateStepTwo(profileData, usernameAvailable)
  /\ IF validateStepTwo(profileData, usernameAvailable) = {}
       THEN /\ submittedProfile' = profileData
            /\ route' = "wizard submitted"
       ELSE UNCHANGED <<submittedProfile, route>>
  /\ signal' = {}
  /\ UNCHANGED <<profileData, usernameAvailable, usernameError, usernameTimer,
                 usernameChecks, wizardRest>>

WizardNext ==
  \/ \E value \in WizardUsernames : updateUsername(value)
  \/ updateOtherField
  \/ checkUsername
  \/ \E str \in WizardUsernames, ok \in BOOLEAN : ResolveUsernameCheck(str, ok)
  \/ handleSubmitProfile

\* ---------------------------------------------------------- specifications
\* The job board: a run opens the listing page or a detail page.
Init == (ListInit \/ DetailInit) /\ GatewayInit
Next == ListNext \/ DetailNext \/ Tick
Spec == Init /\ [][Next]_vars

\* The filter of the listing page on drawn listings and filter states.
FilterSpec == FilterInit /\ [][FilterNext]_vars

\* The deadline check on drawn postings, clocks and time zones.
DeadlineSpec == DeadlineInit /\ [][DeadlineNext]_vars

\* The owner's edits of postings.
EditSpec == EditInit /\ [][EditNext]_vars

\* The profile wizard's username field and submit.
WizardSpec == WizardInit /\ [][WizardNext]_vars

\* The middleware on drawn requests.
MiddlewareSpec == MiddlewareInit /\ [][MiddlewareNext]_vars

\* The same, where the server answers every request and the browser follows
\* every redirect.
FairMiddlewareSpec ==
  MiddlewareSpec /\ WF_vars(HandleRequest) /\ WF_vars(FollowRedirect)

\* The slug generator on drawn titles and random numbers.
SlugSpec == SlugInit /\ [][SlugNext]_vars

\* The posting form on drawn field values.
FormSpec == FormInit /\ [][FormNext]_vars

\* The listing page with the filter section that has the mine-only toggle.
SectionInit == ListInit /\ GatewayInit
SectionNext == ListNext \/ toggleMyPostingsFilter \/ Tick
SectionSpec == SectionInit /\ [][SectionNext]_vars

\* ------------------------------------------------------------------ claims
SavedIn(list) == {list[i].id : i \in {k \in 1..Len(list) : list[k].is_saved}}

\* The step issues the call r: the bag gains a copy of it.
Issued(r) ==
  r.live /\ CopiesIn(r, inflight') > CopiesIn(r, inflight)

\* The posting a call is about, as the page that issues it holds it.
PostingOf(r) ==
  IF r.kind \in {"dsave", "dapply", "ddelete"} THEN jobPosting
  ELSE JobOf(filteredJobPostings, r.job)

\* What the pages hold in memory of the listing and of the viewer's saves
\* and applications.
Memory ==
  <<allJobPostings, filteredJobPostings, savedJobIds,
    [j \in JobIds |-> cards[j].isApplied], isSaved, isApplied>>

\* The program's state: every variable but the labels of the last step
\* and the count of events.
ProgramState ==
  <<authVars, listVars, filterVars, cards, inflight, dbVars, now, route, detailVars>>

\* C1: when save toggles on two different postings are in flight together,
\* the resolution of one leaves the other posting's is_saved flag in the
\* full listing set, and its membership in the saved-id set, as they were:
\* a toggle that resolves after another posting's toggle succeeded does not
\* change that posting's saved state.
C1_ConcurrentSavesIndependent ==
  [][\A r \in Pending : \A ok \in BOOLEAN :
       ResolveSave(r, ok) =>
         \A j \in r.after \cap Ids(allJobPostings) \cap Ids(allJobPostings') :
           /\ (j \in SavedIn(allJobPostings')) = (j \in SavedIn(allJobPostings))
           /\ (j \in savedJobIds') = (j \in savedJobIds)]_vars

\* C2: a save, apply, create or delete whose gateway call fails leaves the
\* full listing set, the filtered set, the saved-id set and the is_saved
\* and isApplied flags as they were.
C2_FailureLeavesMemoryIntact ==
  [][outcome' = "failed" => UNCHANGED Memory]_vars

\* C2 witness: a mutation has just failed on a listing page that shows
\* postings.
C2_Witness ==
  outcome = "failed" /\ route = "list" /\ filteredJobPostings # <<>>

C4_SaveOnlyByCreatorNonOwner ==
  \A r \in Pending :
    r.kind \in {"save", "dsave"} =>
      /\ r.cSession # NoUser
      /\ UserType(r.cSession) = "content_creator"
      /\ (IF r.kind = "save" THEN JobOf(r.cFiltered, r.job) ELSE jobPosting).user_id
           # r.cSession

\* C5: a step issues a job_applications insert, from a card or from the
\* detail page, only if the viewer is an authenticated content creator who
\* does not own the posting and the posting's deadline has not passed at
\* the instant of the step.
C5_ApplyOnlyBeforeDeadline ==
  [][\A r \in BagToSet(inflight') :
       (r.kind \in {"apply", "dapply"} /\ Issued(r)) =>
         /\ session # NoUser
         /\ UserType(session) = "content_creator"
         /\ PostingOf(r).user_id # session
         /\ ~isDeadlinePassed(PostingOf(r), now, tz)]_vars

\* C6: a step issues a job_postings delete only if the viewer owns the
\* posting and has answered the confirmation prompt of that step with yes;
\* a step whose prompt is declined leaves the program's state as it was.
C6_DeleteOnlyByOwnerAfterConfirm ==
  [][/\ \A r \in BagToSet(inflight') :
          (r.kind \in {"delete", "ddelete"} /\ Issued(r)) =>
            /\ prompt' = "yes"
            /\ session # NoUser
            /\ PostingOf(r).user_id = session
     /\ prompt' = "no" => UNCHANGED ProgramState]_vars

\* C6 witness: the owner has just confirmed and the delete is in flight.
C6_Witness ==
  /\ prompt = "yes"
  /\ \E r \in Pending :
       /\ r.kind \in {"delete", "ddelete"}
       /\ (IF r.kind = "delete" THEN JobOf(r.cFiltered, r.job) ELSE jobPosting).user_id
            = session

\* The predicates of the filter state, as one test of a posting.
Keep(job, savedOnly, country, query) ==
  /\ savedOnly => job.is_saved
  /\ country # "" => job.country = country
  /\ query # <<>> =>
       \E field \in {job.title, job.description, job.city,
                     job.first_name \o <<" ">> \o job.last_name} :
         includes(toLowerCase(field), toLowerCase(query))

\* The results of the three stages applied in the five other orders.
OtherOrders(l, savedOnly, country, query) ==
  {SearchStage(SavedStage(CountryStage(l, country), savedOnly), query),
   CountryStage(SearchStage(SavedStage(l, savedOnly), query), country),
   CountryStage(SavedStage(SearchStage(l, query), savedOnly), country),
   SavedStage(SearchStage(CountryStage(l, country), query), savedOnly),
   SavedStage(CountryStage(SearchStage(l, query), country), savedOnly)}

Range(l) == {l[i] : i \in 1..Len(l)}

\* sub keeps the relative order of full: its elements are elements of full
\* at increasing positions.
RECURSIVE IsSubsequence(_, _)
IsSubsequence(sub, full) ==
  IF sub = <<>> THEN TRUE
  ELSE IF full = <<>> THEN FALSE
  ELSE IF Head(sub) = Head(full) THEN IsSubsequence(Tail(sub), Tail(full))
  ELSE IsSubsequence(sub, Tail(full))

\* C7: the filtered result is exactly the listings of the full set that
\* satisfy the conjunction of the active predicates, in the full set's
\* order; it is a subset of the full set, and applying the predicates in any
\* other order gives the same result.
C7_FilterIsConjunction ==
  route = "filtered" =>
    /\ filteredJobPostings =
         SelectSeq(allJobPostings,
                   LAMBDA job : Keep(job, showOnlySaved, selectedCountry, searchQuery))
    /\ Range(filteredJobPostings) \subseteq Range(allJobPostings)
    /\ OtherOrders(allJobPostings, showOnlySaved, selectedCountry, searchQuery)
         = {filteredJobPostings}

\* C7 witness: all three predicates are active and the filter has kept some
\* postings and dropped others.
C7_Witness ==
  /\ route = "filtered"
  /\ showOnlySaved /\ selectedCountry # "" /\ searchQuery # <<>>
  /\ filteredJobPostings # <<>>
  /\ Len(filteredJobPostings) < Len(allJobPostings)

\* C8: with no filter active the filtered set is the full set, in the same
\* order (also after clearFilters); with filters active the surviving
\* postings keep their relative order from the full set.
C8_FilterKeepsOrder ==
  /\ (route = "filtered" /\ ~showOnlySaved /\ selectedCountry = "" /\ searchQuery = <<>>)
       => filteredJobPostings = allJobPostings
  /\ route = "cleared" => filteredJobPostings = allJobPostings
  /\ route = "filtered" => IsSubsequence(filteredJobPostings, allJobPostings)

\* C8 witness: of three postings, two are in the selected country; exactly
\* those two are returned, the earlier one first.
C8_Witness ==
  /\ route = "filtered"
  /\ selectedCountry = "Taiwan" /\ ~showOnlySaved /\ searchQuery = <<>>
  /\ Len(allJobPostings) = 3
  /\ allJobPostings[2].country = "Australia"
  /\ filteredJobPostings = <<allJobPostings[1], allJobPostings[3]>>

\* C9: filtering is idempotent: the filter run on its own result, with the
\* same filter state, returns that result.
C9_FilterIdempotent ==
  route = "refiltered" => filteredJobPostings = allJobPostings

\* C9 witness: the filter has run on its own result, a non-empty listing
\* that an active filter has narrowed.
C9_Witness ==
  /\ route = "refiltered"
  /\ searchQuery # <<>> /\ showOnlySaved
  /\ filteredJobPostings # <<>>

ClaimedCutoff(job, zone) ==
  IF job.deadline_time # NoTime
    THEN job.deadline_date * DaySeconds + job.deadline_time * 60 - zone
    ELSE job.deadline_date * DaySeconds + EndOfDay - zone

C11_DeadlineCheck ==
  route = "deadline" =>
    isDeadlinePassed(jobPosting, dShown, tz)
      = (/\ jobPosting.has_deadline
         /\ jobPosting.deadline_date # NoDate
         /\ dShown > ClaimedCutoff(jobPosting, tz))

\* C12: when a listing load completes, every listing's is_saved flag is true
\* exactly when the viewer is a signed-in content creator and the posting is
\* among that viewer's saved-job rows; for an anonymous viewer and for a
\* viewer of another account kind every flag is false.
LoadCompletes(r) ==
  \/ /\ ResolveLoad1(r, TRUE)
     /\ ~(r.cSession # NoUser /\ UserType(r.cProfile) = "content_creator")
  \/ ResolveLoad2(r, TRUE)

SavedByViewer(j) ==
  UserType(session) = "content_creator" /\ <<session, j>> \in dbSaved

C12_SavedFlagsAfterLoad ==
  [][\A r \in Pending :
       LoadCompletes(r) =>
         \A i \in 1..Len(allJobPostings') :
           allJobPostings'[i].is_saved = SavedByViewer(allJobPostings'[i].id)]_vars

\* C13: the full listing set of the listing page is ordered by creation
\* time, most recent first, after the initial load and after every create,
\* delete and save toggle; a created posting is at the head.
NewestFirst(list) ==
  \A i \in 1..Len(list) : \A k \in 1..Len(list) :
    i < k => list[i].created_at > list[k].created_at

C13_NewestFirst == NewestFirst(allJobPostings)

C13_Witness ==
  /\ route = "list"
  /\ outcome = "ok"
  /\ Len(allJobPostings) > NJobs
  /\ allJobPostings[1].id > NJobs
  /\ \E i \in 1..Len(allJobPostings) : allJobPostings[i].is_saved

\* C14: when the job-postings query or the saved-jobs query of a listing
\* load fails, the page is in the blocking error view with its manual retry,
\* no card is shown, not even those of a partial listing, and the step
\* starts no other call (the load is not retried).
LoadFails(r) == ResolveLoad1(r, FALSE) \/ ResolveLoad2(r, FALSE)

C14_LoadFailureBlocks ==
  [][\A r \in Pending :
       LoadFails(r) =>
         /\ error' # NoError /\ ~loading'
         /\ \A j \in JobIds : cards'[j] = FreshCard
         /\ \A q \in BagToSet(inflight') : ~Issued(q)]_vars

C14_Witness ==
  /\ route = "list"
  /\ signal = {"log"}
  /\ ErrorView
  /\ allJobPostings # <<>>
  /\ filteredJobPostings # <<>>
  /\ UserType(userProfile) = "content_creator"
  /\ \A j \in JobIds : cards[j] = FreshCard

\* C15: every failed remote operation (listing load, create, delete, save or
\* unsave, apply; on the listing page, the card and the detail page) is
\* logged and also leaves a signal the user can see: the blocking error
\* view, a notification, or the operation's control left disabled.
OperationFails(r) ==
  \/ ResolveLoad1(r, FALSE) \/ ResolveLoad2(r, FALSE)
  \/ ResolveCreate(r, FALSE) \/ ResolveDelete(r, FALSE)
  \/ ResolveSave(r, FALSE) \/ ResolveApply(r, FALSE)
  \/ ResolveDSave(r, FALSE) \/ ResolveDApply(r, FALSE) \/ ResolveDDelete(r, FALSE)

ControlDisabled(r) ==
  IF r.kind \in {"dsave", "dapply", "ddelete"} THEN isActionLoading
  ELSE r.job # NoJob /\ (cards[r.job].isLoading \/ cards[r.job].isDeleting)

C15_FailuresAreVisible ==
  [][\A r \in Pending :
       OperationFails(r) =>
         /\ "log" \in signal'
         /\ \/ "alert" \in signal'
            \/ (error # NoError)' \/ (dError # NoError)'
            \/ ControlDisabled(r)']_vars

\* C16: a detail page opened with a slug that matches no posting ends, when
\* its fetch has gone through, in the not-found state: the message 'Job
\* posting not found', which no other failure of the fetch produces.
C16_NotFoundIsDistinct ==
  [][\A r \in Pending :
       (ResolveDFetch1(r, TRUE) /\ SingleJob(slugJob) = {}) =>
         ~dLoading' /\ dError' = "Job posting not found"]_vars

\* C17: once an apply for a posting has succeeded in the session, the apply
\* action is not offered for it again and the applied indicator does not
\* revert: neither the card nor the detail page issues a second
\* job_applications insert for a (viewer, posting) pair that has one.
C17_NoSecondApply ==
  [][\A r \in BagToSet(inflight') :
       (Issued(r) /\ r.kind \in {"apply", "dapply"}) =>
         <<r.cProfile, r.job>> \notin dbApplied]_vars

\* C18: on the listing page a save toggle in flight does not keep the
\* bookmark button of its card busy: once the card's timer has reset the
\* busy flag the button takes a click again, whatever is in flight, so that
\* two insert (or two delete) calls for the same viewer and posting can be
\* outstanding at once.
C18_SecondToggleNotGuarded ==
  \A j \in JobIds :
    (/\ route = "list" /\ j \in MountedNow
     /\ canInteract(j, JobOf(filteredJobPostings, j))
     /\ ~cards[j].isLoading
     /\ events < MaxEvents /\ InFlightCount < MaxInFlight)
      => ENABLED CardSaveClick(j)

C18_Witness ==
  \E r \in Pending :
    /\ r.kind = "save"
    /\ CopiesIn(r, inflight) > 1
    /\ ~cards[r.job].isLoading

\* C19: whenever the full listing set is empty the filtered set is empty
\* too, whatever filters are active and whatever emptied the full set (a
\* load of an empty board, the delete of the last posting).
C19_EmptyAllEmptyFiltered ==
  allJobPostings = <<>> => filteredJobPostings = <<>>

C19_Witness ==
  /\ route = "list"
  /\ outcome = "ok"
  /\ dbJobs = <<>>
  /\ created = 0
  /\ allJobPostings = <<>>
  /\ filteredJobPostings = <<>>
  /\ searchQuery # <<>>

\* C20: an edit of a posting changes only its title, description and
\* deadline fields (has_deadline, deadline_date, deadline_time): the owner,
\* the slug, the identifier and the creation timestamp of every posting are
\* the same after the edit as before it, in the gateway's rows and in the
\* listing the page holds.
Frame(row) == <<row.id, row.profile_id, row.slug, row.created_at>>

C20_EditKeepsFrame ==
  [][\A r \in Pending :
       ResolveUpdate(r, TRUE) =>
         /\ Len(dbJobs') = Len(dbJobs)
         /\ \A i \in 1..Len(dbJobs) :
              /\ Frame(dbJobs'[i]) = Frame(dbJobs[i])
              /\ dbJobs[i].id # r.job => dbJobs'[i] = dbJobs[i]
         /\ \A i \in 1..Len(allJobPostings') : \A k \in 1..Len(dbJobs) :
              allJobPostings'[i].id = dbJobs[k].id =>
                /\ Frame(allJobPostings'[i]) = Frame(dbJobs[k])
                /\ allJobPostings'[i].user_id = ProfileRow(dbJobs[k].profile_id).user_id]_vars

C20_Witness ==
  /\ route = "edit"
  /\ outcome = "ok"
  /\ \E i \in 1..Len(dbJobs) :
       /\ dbJobs[i].title # InitialRow(dbJobs[i].id).title
       /\ dbJobs[i].description # InitialRow(dbJobs[i].id).description
       /\ dbJobs[i].has_deadline # InitialRow(dbJobs[i].id).has_deadline
       /\ Frame(dbJobs[i]) = Frame(InitialRow(dbJobs[i].id))

\* The step hands form data to onCreate.
OnCreateCalled == onCreateCalls = <<>> /\ onCreateCalls' # <<>>

\* C21: the posting form hands data to its create/update handler only when
\* title and description are not blank and a deadline date is present
\* whenever the deadline flag is set; a submit of any other data calls no
\* handler.
C21_FormRefusesInvalid ==
  [][/\ OnCreateCalled =>
          /\ trim(onCreateCalls'[1].title) # <<>>
          /\ trim(onCreateCalls'[1].description) # <<>>
          /\ onCreateCalls'[1].has_deadline =>
               onCreateCalls'[1].deadline_date \notin {NoDate, ClearedInput}
     /\ (handleSubmit /\ ~OnCreateCalled) =>
          \/ trim(formData.title) = <<>>
          \/ trim(formData.description) = <<>>
          \/ formData.has_deadline /\ formData.deadline_date \in {NoDate, ClearedInput}]_vars

\* A submit was refused for the missing date alone.
C21_Witness ==
  /\ route = "form"
  /\ errors = {"deadline_date"}
  /\ formData.has_deadline /\ formData.deadline_date \in {NoDate, ClearedInput}
  /\ onCreateCalls = <<>> /\ ~isSubmitting

\* The base the claim describes, read off the title in one pass.
RECURSIVE ClaimedBase(_)
ClaimedBase(str) ==
  IF str = <<>>
    THEN <<>>
    ELSE IF Head(str) \in Whitespace
      THEN <<"-">> \o ClaimedBase(trimStart(str))
      ELSE IF Head(str) \in WordChars \cup {"-"}
        THEN toLowerCase(<<Head(str)>>) \o ClaimedBase(Tail(str))
        ELSE ClaimedBase(Tail(str))

C22_BaseAsClaimed ==
  route = "slug made" =>
    /\ Len(newSlug) > Len(ClaimedBase(newTitle))
    /\ SubSeq(newSlug, 1, Len(ClaimedBase(newTitle)) + 1) = ClaimedBase(newTitle) \o <<"-">>

ClaimedProtected(str) ==
  \/ startsWith(str, <<"/", "d", "a", "s", "h", "b", "o", "a", "r", "d">>)
  \/ startsWith(str, <<"/", "p", "r", "o", "f", "i", "l", "e">>)
  \/ startsWith(str, <<"/", "s", "e", "t", "t", "i", "n", "g", "s">>)

\* C24: a request without a session is redirected to /auth with redirectTo
\* set to the requested path when the path starts with /dashboard, /profile
\* or /settings, and is passed through without redirect otherwise.
C24_ProtectedNeedSession ==
  (cookieSession = "none" /\ response # NoResponse) =>
    IF ClaimedProtected(pathname)
      THEN response = [kind |-> "redirect", location |-> AuthPath,
                       redirectTo |-> pathname]
      ELSE response.kind = "next"

\* A request without a session below a protected prefix was redirected.
C24_Witness ==
  /\ cookieSession = "none"
  /\ pathname = <<"/", "d", "a", "s", "h", "b", "o", "a", "r", "d", "/", "j", "o", "b", "s">>
  /\ response.kind = "redirect"

\* C30: for every start path and session state the chain of redirects ends
\* in a pass-through response, and it never uses up the redirects the
\* browser allows.
C30_RedirectsEnd ==
  /\ [](redirects < MaxRedirects)
  /\ <>(response.kind = "next")

\* A signed-in user without a completed profile asked for an auth page: two
\* redirects, then the setup page is passed through.
C30_Witness ==
  /\ redirects = 2
  /\ cookieSession = "incomplete"
  /\ pathname = ProfileSetupPath
  /\ response.kind = "next"

\* No load and no profile fetch is under way after the step.
LoadsSettled ==
  \A q \in BagToSet(inflight') : q.kind \notin {"load1", "load2", "profile"}

\* The flag the most recently started load gives a posting: that load began
\* at the last change of session or userProfile and so has their values.
SavedForLatestLoad(j) ==
  /\ session' # NoUser
  /\ UserType(userProfile') = "content_creator"
  /\ <<userProfile', j>> \in dbSaved'

\* C25: when overlapping listing loads have all resolved successfully, in
\* whatever order, the listing has the is_saved flags of the load that was
\* started last: a content creator's saved postings are marked saved.
C25_LatestLoadWins ==
  [][\A r \in Pending :
       (LoadCompletes(r) /\ LoadsSettled /\ error' = NoError) =>
         \A i \in 1..Len(allJobPostings') :
           allJobPostings'[i].is_saved = SavedForLatestLoad(allJobPostings'[i].id)]_vars

\* The step is the successful end of a save toggle, a create or a delete.
HandlerResolves(r) ==
  \/ ResolveSave(r, TRUE)
  \/ ResolveCreate(r, TRUE)
  \/ ResolveDelete(r, TRUE)

\* C26: a posting that was deleted at the gateway and removed from the
\* listing is put back into neither the full nor the filtered set by a save
\* toggle, create or delete that resolves later, and a posting that a create
\* added is not dropped by such a handler (other than its own delete).
C26_NoResurrection ==
  [][\A r \in Pending :
       HandlerResolves(r) =>
         \A j \in JobIds :
           /\ (j <= NJobs + created /\ j \notin Ids(dbJobs)
                                    /\ j \notin Ids(allJobPostings)) =>
                (j \notin Ids(allJobPostings') /\ j \notin Ids(filteredJobPostings'))
           /\ (j > NJobs /\ j \in Ids(dbJobs') /\ j \in Ids(allJobPostings)) =>
                j \in Ids(allJobPostings')]_vars

\* The save/unsave and apply calls of the detail page that are in flight.
DetailActions == {r \in Pending : r.kind \in {"dsave", "dapply"}}

\* C27: on the detail page at most one save/unsave or apply call is in
\* flight.  The busy flag is set by the step that issues such a call, no
\* save or apply click is taken while it is set, and the step that ends the
\* call, with success or failure, clears it.
C27_OneDetailAction ==
  /\ [](/\ SumCounts(inflight, DetailActions) <= 1
        /\ DetailActions # {} => isActionLoading
        /\ isActionLoading => ~ENABLED DetailSaveClick /\ ~ENABLED DetailApplyClick)
  /\ [][\A r \in Pending \cup BagToSet(inflight') :
          /\ (Issued(r) /\ r.kind \in {"dsave", "dapply"}) => isActionLoading'
          /\ (\E ok \in BOOLEAN : ResolveDSave(r, ok) \/ ResolveDApply(r, ok)) =>
               ~isActionLoading']_vars

\* A save call of the detail page is in flight and the page is shown with
\* its controls busy.
C27_Witness ==
  /\ route = "detail" /\ DetailShown
  /\ \E r \in DetailActions : r.kind = "dsave"
  /\ isActionLoading
  /\ dIsContentCreator /\ ~dIsOwner

\* C28: the posting form closes only after the posting was created (or when
\* the user closes it or reloads the page): a create that fails at the
\* gateway, and a create handler that returns early without session or
\* profile, leave the form open.
C28_FormClosesAfterCreate ==
  [][(isModalOpen /\ ~isModalOpen') =>
       \/ CloseModal
       \/ Reload
       \/ \E r \in Pending : ResolveCreate(r, TRUE)]_vars

\* C29: the profile wizard hands a profile to submitProfile only when the
\* username in the form has itself been checked and found available: the
\* submitted username is well formed and no row of profiles has it, also
\* when the field was edited within the debounce window or checks of older
\* values resolved after newer ones.
C29_SubmittedUsernameChecked ==
  submittedProfile # NoProfile =>
    /\ Len(submittedProfile.username) >= 3
    /\ ValidUsername(submittedProfile.username)
    /\ submittedProfile.username \notin TakenUsernames
====
